---- MODULE Spec2Model ----
(***************************************************************************)
(* Model of elasticlient: the Client's node selector and request           *)
(* dispatcher (client-impl.h, client.cc), the batch SameIndexBulkData and  *)
(* the Bulk indexer (bulk.cc, bulk-impl.h), and the Scroll cursor          *)
(* (scroll.cc).  One performRequest call is a sequence of Attempt steps,   *)
(* one per contacted node; Bulk::perform and the operations of Scroll      *)
(* start such a call and continue in their return actions when the call    *)
(* has ended.                                                              *)
(***************************************************************************)
EXTENDS Integers, Sequences, FiniteSets, TLC

(***************************************************************************)
(* Bounds                                                                  *)
(***************************************************************************)
\* largest number of configured nodes of a Client
MaxHosts == 3
\* largest number of configured nodes of the Client a Bulk or a Scroll
\* works on
MaxBulkHosts == 1
\* largest number of pending items of a SameIndexBulkData
MaxBatch == 2
\* largest length of the `items` array of a bulk response
MaxItems == 2
\* largest number of pages the server gives to one cursor
MaxPages == 3

(***************************************************************************)
(* State                                                                   *)
(***************************************************************************)
VARIABLES
    hostUrlList,        \* Client::Implementation::hostUrlList (node ids)
    currentHostIndex,   \* Client::Implementation::currentHostIndex
    failCounter,        \* Client::Implementation::failCounter
    nodeStatus,         \* environment: status each node answers with now
    pc,                 \* "idle", "request" (inside performRequest), "return"
    caller,             \* who called performRequest: "client" or "bulk"
    requests,           \* node attempts made by the most recent operation
    response,           \* local `response` of its performRequest call
    outcome,            \* how its performRequest call ended
    changed,            \* a node changed its behaviour since the call began
    data,               \* SameIndexBulkData::Implementation::data
    errCount,           \* Bulk::Implementation::errCount
    op,                 \* the most recent operation of the public API
    performRet,         \* value returned by the most recent Bulk::perform
    errBefore,          \* errCount when the most recent perform was called
    parsed,             \* processResult ran in the most recent perform
    raised,             \* the most recent perform ended in an exception
    selectorBefore,     \* currentHostIndex, failCounter when op was called
    implSize,           \* SameIndexBulkData::Implementation::size
    addRet,             \* value returned by the most recent add operation
    added,              \* arguments of the adds that succeeded since clear
    lastAdd,            \* arguments of the most recent add operation
    dataBefore,         \* data when the most recent add was called
    scrollParameters,   \* Scroll::Implementation::scrollParameters
    scrollCalls,        \* performRequest calls of the most recent Scroll op
    nextRet,            \* value returned by the most recent Scroll::next
    parsedResult,       \* the caller's parsedResult of that next
    scrollRaised,       \* the most recent Scroll op ended in an exception
    pages,              \* pages accepted since init: token, hits, request
    paramsBefore,       \* scrollParameters when that op was called
    initArgs,           \* arguments of the most recent op, if it is init
    scrollAnswers,      \* how each ended call of scrollCalls was answered
    answeredBy,         \* node that answered the performRequest call inside
                        \* the search, get, index or remove before the most
                        \* recent one, -1 if none did
    facadeCall,         \* the most recent call of search, get, index, remove,
                        \* and the failed attempts of the call before it
                        \* when that call ended with a response
    threads,            \* the performRequest calls that two threads make on
                        \* the Client without synchronization: of each its
                        \* position, its attempts and how it ended
    lifecycle           \* "new" (init never called), "init", "cleared"
                        \* (by a clear without cursor token), "released"
                        \* (by a clear of a cursor token), "destroyed"

clientVars == <<hostUrlList, currentHostIndex, failCounter>>
callVars == <<pc, caller, requests, response, outcome, changed>>
bulkVars == <<data, errCount, performRet, errBefore, parsed, raised>>
dataVars == <<implSize, addRet, added, lastAdd, dataBefore>>
scrollVars == <<scrollParameters, scrollCalls, nextRet, parsedResult,
                scrollRaised, pages, paramsBefore, initArgs, scrollAnswers,
                lifecycle>>
vars == <<hostUrlList, currentHostIndex, failCounter, nodeStatus, pc, caller,
          requests, response, outcome, changed, data, errCount, op,
          performRet, errBefore, parsed, raised, selectorBefore, implSize,
          addRet, added, lastAdd, dataBefore, scrollParameters, scrollCalls,
          nextRet, parsedResult, scrollRaised, pages, paramsBefore, initArgs,
          scrollAnswers, facadeCall, answeredBy, threads, lifecycle>>

\* hostUrlList.size()
HostCount == Len(hostUrlList)
\* valid values of currentHostIndex (0-based as in the code)
HostIndexes == 0 .. (HostCount - 1)

(***************************************************************************)
(* Transport: what a node can answer                                       *)
(***************************************************************************)
\* status codes a node answers a Client request with; 0 = cannot connect
Statuses == {0, 503, 200, 404}

\* the empty response text (the text of a node that did not answer)
NoText == [parse |-> "empty"]

\* response texts a node answers a request of the Client's user with
ClientTexts == {NoText, [parse |-> "error"]}

NoResponse == [status_code |-> 0, text |-> NoText]

(***************************************************************************)
(* Client::Implementation                                                  *)
(***************************************************************************)
\* a resetCurrentHostInfo that leaves one failure counted
resetCurrentHostInfo_counterOne(rnd) ==
    [currentHostIndex |-> rnd, failCounter |-> 1]

\* resetCurrentHostInfo: rnd is the value of uintGenerator.getRandom(0, n-1)
resetCurrentHostInfo(rnd) ==
    [currentHostIndex |-> rnd, failCounter |-> 0]

\* failCurrentHostAndIterateNext that leaves failCounter as it is when the
\* last node has failed
failCurrentHostAndIterateNext_keepCounter(idx, fc, n, rnd) ==
    IF fc + 1 >= n
    THEN [ok |-> FALSE, currentHostIndex |-> rnd, failCounter |-> fc + 1]
    ELSE [ok |-> TRUE,
          currentHostIndex |-> IF idx + 1 >= n THEN 0 ELSE idx + 1,
          failCounter |-> fc + 1]

\* failCurrentHostAndIterateNext that stays on the node that failed
failCurrentHostAndIterateNext_noAdvance(idx, fc, n, rnd) ==
    IF fc + 1 >= n
    THEN [ok |-> FALSE,
          currentHostIndex |-> resetCurrentHostInfo(rnd).currentHostIndex,
          failCounter |-> resetCurrentHostInfo(rnd).failCounter]
    ELSE [ok |-> TRUE, currentHostIndex |-> idx, failCounter |-> fc + 1]

\* failCurrentHostAndIterateNext that gives up one node early
failCurrentHostAndIterateNext_oneShort(idx, fc, n, rnd) ==
    IF fc + 2 >= n
    THEN [ok |-> FALSE,
          currentHostIndex |-> resetCurrentHostInfo(rnd).currentHostIndex,
          failCounter |-> resetCurrentHostInfo(rnd).failCounter]
    ELSE [ok |-> TRUE,
          currentHostIndex |-> IF idx + 1 >= n THEN 0 ELSE idx + 1,
          failCounter |-> fc + 1]

\* failCurrentHostAndIterateNext without the wrap of currentHostIndex to 0
failCurrentHostAndIterateNext_noWrap(idx, fc, n, rnd) ==
    IF fc + 1 >= n
    THEN [ok |-> FALSE,
          currentHostIndex |-> resetCurrentHostInfo(rnd).currentHostIndex,
          failCounter |-> resetCurrentHostInfo(rnd).failCounter]
    ELSE [ok |-> TRUE, currentHostIndex |-> idx + 1, failCounter |-> fc + 1]

\* failCurrentHostAndIterateNext: `ok` is the returned bool
failCurrentHostAndIterateNext(idx, fc, n, rnd) ==
    IF fc + 1 >= n
    THEN [ok |-> FALSE,
          currentHostIndex |-> resetCurrentHostInfo(rnd).currentHostIndex,
          failCounter |-> resetCurrentHostInfo(rnd).failCounter]
    ELSE [ok |-> TRUE,
          currentHostIndex |-> IF idx + 1 >= n THEN 0 ELSE idx + 1,
          failCounter |-> fc + 1]

\* performRequestOnCurrentHost that takes 404 for a node failure too
performRequestOnCurrentHost_404(status_code) ==
    ~(status_code = 0 \/ status_code = 503 \/ status_code = 404)

\* return value of performRequestOnCurrentHost for a response status
performRequestOnCurrentHost(status_code) ==
    ~(status_code = 0 \/ status_code = 503)

\* performRequest without the reset of failCounter after the loop
performRequest_noReset(idx, fc, n, status_code, rnd) ==
    IF status_code # 0 /\ status_code # 503
    THEN [end |-> "response", currentHostIndex |-> idx, failCounter |-> fc]
    ELSE [end |-> IF fc + 1 >= n THEN "ConnectionException" ELSE "none",
          currentHostIndex |-> IF fc + 1 >= n THEN rnd
                               ELSE IF idx + 1 >= n THEN 0 ELSE idx + 1,
          failCounter |-> IF fc + 1 >= n THEN 0 ELSE fc + 1]

\* performRequest that moves to the following node after a response
performRequest_advanceAfterAnswer(idx, fc, n, status_code, rnd) ==
    IF performRequestOnCurrentHost(status_code)
    THEN [end |-> "response",
          currentHostIndex |-> IF idx + 1 >= n THEN 0 ELSE idx + 1,
          failCounter |-> 0]
    ELSE LET f == failCurrentHostAndIterateNext(idx, fc, n, rnd)
         IN  [end |-> IF f.ok THEN "none" ELSE "ConnectionException",
              currentHostIndex |-> f.currentHostIndex,
              failCounter |-> f.failCounter]

\* one iteration of the loop of performRequest, and the reset after the loop
\* when the iteration ends it
performRequest(idx, fc, n, status_code, rnd) ==
    IF performRequestOnCurrentHost(status_code)
    THEN [end |-> "response", currentHostIndex |-> idx, failCounter |-> 0]
    ELSE LET f == failCurrentHostAndIterateNext(idx, fc, n, rnd)
         IN  [end |-> IF f.ok THEN "none" ELSE "ConnectionException",
              currentHostIndex |-> f.currentHostIndex,
              failCounter |-> f.failCounter]

(***************************************************************************)
(* Texts.  A std::string is a sequence of pieces; "\n" is always a piece   *)
(* of its own.                                                             *)
(***************************************************************************)
\* std::string::empty
StrEmpty(str) == Len(str) = 0

(***************************************************************************)
(* Response texts: what rapidjson makes of them.  A text either does not   *)
(* parse or parses to a value; a value is a record with its type, an       *)
(* object has a function `members` from keys to values, an array has a     *)
(* sequence `elems`.                                                       *)
(***************************************************************************)
JString == [type |-> "string"]
JBool(b) == [type |-> "bool", val |-> b]
JInt(n) == [type |-> "int", val |-> n]
JArray(elems) == [type |-> "array", elems |-> elems]
JObject(members) == [type |-> "object", members |-> members]
NoMembers == [k \in {} |-> JString]

\* a text that is valid JSON with this root value
JsonText(root) == [parse |-> "ok", root |-> root]
\* a text that is not valid JSON
GarbageText == [parse |-> "error"]

\* rapidjson::Value::IsObject, IsArray, IsBool, IsInt
IsObject(v) == v.type = "object"
IsArray(v) == v.type = "array"
IsBool(v) == v.type = "bool"
IsInt(v) == v.type = "int"
\* rapidjson::Value::HasMember (of an object)
HasMember(v, key) == IsObject(v) /\ key \in DOMAIN v.members

(***************************************************************************)
(* SameIndexBulkData                                                       *)
(***************************************************************************)
\* a validateDocument that accepts every document
validateDocument_never(doc) == FALSE

\* validateDocument: TRUE when it throws std::runtime_error
validateDocument(doc) == \E i \in 1 .. Len(doc) : doc[i] = "\n"

\* createControl
createControl(action, docType, docId) ==
    <<"{\"">> \o action \o <<"\": {\"_type\": \"">> \o docType \o <<"\"">>
    \o (IF ~StrEmpty(docId) THEN <<", \"_id\": \"">> \o docId \o <<"\"">>
        ELSE <<>>)
    \o <<"}}">>

\* BulkItem constructor
BulkItem(control, source) == [control |-> control, source |-> source]

\* an operator<< that writes the line of the source also when it is empty
BulkItemOut_emptySource(item) ==
    IF StrEmpty(item.control) THEN <<>>
    ELSE item.control \o <<"\n">> \o item.source \o <<"\n">>

\* operator<< of BulkItem: the text an item adds to the body
BulkItemOut(item) ==
    IF StrEmpty(item.control) THEN <<>>
    ELSE item.control \o <<"\n">>
         \o (IF ~StrEmpty(item.source) THEN item.source \o <<"\n">>
             ELSE <<>>)

\* an indexDocument that returns true only beyond the desired size
indexDocument_beyond(d, sz, docType, id, doc, validate) ==
    IF validate /\ validateDocument(doc)
    THEN [threw |-> TRUE, data |-> d, return |-> FALSE]
    ELSE LET d2 == Append(d, BulkItem(createControl(<<"index">>, docType, id),
                                      doc))
         IN  [threw |-> FALSE, data |-> d2, return |-> Len(d2) > sz]

\* SameIndexBulkData::indexDocument (the overload with `validate`) on the
\* data d of a batch of desired size sz: `threw` for the exception of
\* validateDocument, `data` the new impl->data, `return` the value returned
indexDocument(d, sz, docType, id, doc, validate) ==
    IF validate /\ validateDocument(doc)
    THEN [threw |-> TRUE, data |-> d, return |-> FALSE]
    ELSE LET d2 == Append(d, BulkItem(createControl(<<"index">>, docType, id),
                                      doc))
         IN  [threw |-> FALSE, data |-> d2, return |-> Len(d2) >= sz]

\* SameIndexBulkData::indexDocument(docType, id, doc)
indexDocument3(d, sz, docType, id, doc) ==
    indexDocument(d, sz, docType, id, doc, TRUE)

\* SameIndexBulkData::createDocument (the overload with `validate`)
createDocument(d, sz, docType, id, doc, validate) ==
    IF validate /\ validateDocument(doc)
    THEN [threw |-> TRUE, data |-> d, return |-> FALSE]
    ELSE LET d2 == Append(d, BulkItem(createControl(<<"create">>, docType,
                                                    id), doc))
         IN  [threw |-> FALSE, data |-> d2, return |-> Len(d2) >= sz]

\* SameIndexBulkData::createDocument(docType, id, doc)
createDocument3(d, sz, docType, id, doc) ==
    createDocument(d, sz, docType, id, doc, TRUE)

\* SameIndexBulkData::updateDocument (the overload with `validate`)
updateDocument(d, sz, docType, id, doc, validate) ==
    IF validate /\ validateDocument(doc)
    THEN [threw |-> TRUE, data |-> d, return |-> FALSE]
    ELSE LET d2 == Append(d, BulkItem(createControl(<<"update">>, docType,
                                                    id), doc))
         IN  [threw |-> FALSE, data |-> d2, return |-> Len(d2) >= sz]

\* SameIndexBulkData::updateDocument(docType, id, doc)
updateDocument3(d, sz, docType, id, doc) ==
    updateDocument(d, sz, docType, id, doc, TRUE)

\* SameIndexBulkData::clear: the new impl->data
clear(d) == <<>>

\* an empty() that never reports an empty batch
empty_never(d) == FALSE

\* SameIndexBulkData::empty
empty(d) == Len(d) = 0

\* SameIndexBulkData::size
size(d) == Len(d)

\* SameIndexBulkData::body
RECURSIVE body(_)
body(d) == IF Len(d) = 0 THEN <<>> ELSE BulkItemOut(Head(d)) \o body(Tail(d))

(***************************************************************************)
(* Bulk                                                                    *)
(***************************************************************************)
supportedActions == <<"create", "index", "update", "delete">>

\* containsError without the check of the range of the status
containsError_noRange(item, action) ==
    LET res == item.members[action]
    IN  IF ~IsObject(res) THEN 1
        ELSE IF ~HasMember(res, "status") THEN 1
        ELSE IF ~IsInt(res.members["status"]) THEN 1
        ELSE 0

\* containsError: the number of errors (0 or 1) of item[action]
containsError(item, action) ==
    LET res == item.members[action]
    IN  IF ~IsObject(res) THEN 1
        ELSE IF ~HasMember(res, "status") THEN 1
        ELSE LET status == res.members["status"]
             IN  IF ~IsInt(status) THEN 1
                 ELSE IF status.val < 200 \/ status.val > 299 THEN 1
                 ELSE 0

\* a loop body that counts an object without a supported action as an error
itemErrors_unknownIsError(item) ==
    IF ~IsObject(item) THEN 1
    ELSE LET present == {i \in 1 .. Len(supportedActions) :
                            HasMember(item, supportedActions[i])}
         IN  IF present = {} THEN 1
             ELSE containsError(item,
                     supportedActions[CHOOSE i \in present :
                                          \A j \in present : i <= j])

\* body of the loop over the items in processResult: the increase of
\* errCount for one item
itemErrors(item) ==
    IF ~IsObject(item) THEN 1
    ELSE LET present == {i \in 1 .. Len(supportedActions) :
                            HasMember(item, supportedActions[i])}
         IN  IF present = {} THEN 0
             ELSE containsError(item,
                     supportedActions[CHOOSE i \in present :
                                          \A j \in present : i <= j])

\* the loop over the items in processResult
RECURSIVE itemsErrors(_)
itemsErrors(elems) ==
    IF Len(elems) = 0 THEN 0
    ELSE itemErrors(Head(elems)) + itemsErrors(Tail(elems))

\* processResult without the look at the `errors` flag
processResult_noErrorsFlag(result, bulkSize, errCnt) ==
    IF result.parse # "ok" \/ ~IsObject(result.root) THEN errCnt + bulkSize
    ELSE IF ~HasMember(result.root, "items") THEN errCnt
    ELSE IF ~IsArray(result.root.members["items"]) THEN errCnt
    ELSE errCnt + itemsErrors(result.root.members["items"].elems)

\* processResult that takes every text that parses for an object
processResult_noObjectCheck(result, bulkSize, errCnt) ==
    IF result.parse # "ok" THEN errCnt + bulkSize
    ELSE LET root == result.root
         IN  IF /\ HasMember(root, "errors")
                /\ IsBool(root.members["errors"])
                /\ ~root.members["errors"].val
             THEN errCnt
             ELSE IF ~HasMember(root, "items") THEN errCnt
             ELSE IF ~IsArray(root.members["items"]) THEN errCnt
             ELSE errCnt + itemsErrors(root.members["items"].elems)

\* processResult that counts the items without a response as errors
processResult_countMissing(result, bulkSize, errCnt) ==
    IF result.parse # "ok" \/ ~IsObject(result.root) THEN errCnt + bulkSize
    ELSE LET root == result.root
         IN  IF /\ HasMember(root, "errors")
                /\ IsBool(root.members["errors"])
                /\ ~root.members["errors"].val
             THEN errCnt
             ELSE IF ~HasMember(root, "items") THEN errCnt
             ELSE IF ~IsArray(root.members["items"]) THEN errCnt
             ELSE errCnt + itemsErrors(root.members["items"].elems)
                  + (IF Len(root.members["items"].elems) < bulkSize
                     THEN bulkSize - Len(root.members["items"].elems)
                     ELSE 0)

\* Bulk::Implementation::processResult: the new errCount
processResult(result, bulkSize, errCnt) ==
    IF result.parse # "ok" \/ ~IsObject(result.root) THEN errCnt + bulkSize
    ELSE LET root == result.root
         IN  IF /\ HasMember(root, "errors")
                /\ IsBool(root.members["errors"])
                /\ ~root.members["errors"].val
             THEN errCnt
             ELSE IF ~HasMember(root, "items") THEN errCnt
             ELSE IF ~IsArray(root.members["items"]) THEN errCnt
             ELSE errCnt + itemsErrors(root.members["items"].elems)

\* run without the check of the status of the response
run_noStatusCheck(end, r, bulkSize, errCnt) ==
    IF end = "ConnectionException"
    THEN [errCount |-> errCnt + bulkSize, parsed |-> FALSE, raised |-> FALSE]
    ELSE [errCount |-> processResult(r.text, bulkSize, errCnt),
          parsed |-> TRUE, raised |-> FALSE]

\* Bulk::Implementation::run after client->performRequest has ended with
\* `end`: the new errCount, whether processResult was called, and whether
\* an exception leaves run
run(end, r, bulkSize, errCnt) ==
    IF end = "ConnectionException"
    THEN [errCount |-> errCnt + bulkSize, parsed |-> FALSE, raised |-> FALSE]
    ELSE IF r.status_code < 200 \/ r.status_code > 299
    THEN [errCount |-> errCnt + bulkSize, parsed |-> FALSE, raised |-> FALSE]
    ELSE [errCount |-> processResult(r.text, bulkSize, errCnt),
          parsed |-> TRUE, raised |-> FALSE]

\* a perform that empties the batch it was given
Bulk_perform_batch_cleared(d) == <<>>

\* the batch after Bulk::perform, which takes it as const IBulkData & and
\* calls its const members empty, size, body and indexName only
Bulk_perform_batch(d) == d

\* perform without the reset of errCount
perform_noReset(isEmpty, errCnt) ==
    [return |-> isEmpty, errCount |-> errCnt]

\* Bulk::perform up to the call of run: whether it returns at once, and the
\* new errCount
perform(isEmpty, errCnt) ==
    IF isEmpty THEN [return |-> TRUE, errCount |-> errCnt]
    ELSE [return |-> FALSE, errCount |-> 0]

(***************************************************************************)
(* The answers of a cluster to a bulk request                              *)
(***************************************************************************)
\* status codes a node answers a bulk request with
BulkStatuses == {0, 199, 200, 300}

\* what an item of a bulk response holds under an action key
BulkEntries ==
    {JString, JObject(NoMembers), JObject("status" :> JString)}
    \cup {JObject("status" :> JInt(n)) : n \in {199, 200, 299, 300}}

EntryOk == JObject("status" :> JInt(200))
EntryFailed == JObject("status" :> JInt(300))

\* the items of a bulk response
BulkItems ==
    {JString, JObject("took" :> EntryFailed)}
    \cup {JObject("index" :> e) : e \in BulkEntries}
    \cup {JObject(a :> e) : a \in {"create", "update", "delete"},
                            e \in {EntryOk, EntryFailed}}
    \cup {JObject(NoMembers),
          JObject(("create" :> EntryOk) @@ ("index" :> EntryFailed))}

\* the items that fill the longer arrays
CoreItems == {JObject("index" :> EntryOk), JObject("index" :> EntryFailed),
              JString}

\* the arrays of at most n of these items
RECURSIVE ItemArrays(_)
ItemArrays(n) ==
    IF n = 0 THEN {<<>>}
    ELSE LET shorter == ItemArrays(n - 1)
         IN  shorter \cup {Append(a, i) : a \in shorter, i \in CoreItems}

\* the values of the `items` member of a bulk response: not an array, or
\* an array of at most MaxItems items, any item first and then core items
BulkItemsValues ==
    {JString, JArray(<<>>)}
    \cup {JArray(<<i>> \o a) : i \in BulkItems, a \in ItemArrays(MaxItems - 1)}

\* the roots of the bulk responses that are objects
BulkRoots ==
    {JObject(NoMembers), JObject("errors" :> JBool(TRUE)),
     JObject("errors" :> JBool(FALSE))}
    \cup {JObject("items" :> i) : i \in BulkItemsValues}
    \cup {JObject(("errors" :> e) @@ ("items" :> i)) :
             e \in {JBool(TRUE), JBool(FALSE), JString}, i \in BulkItemsValues}

\* the texts a node answers a bulk request with
BulkTexts ==
    {NoText, GarbageText, JsonText(JArray(<<>>)), JsonText(JString)}
    \cup {JsonText(r) : r \in BulkRoots}

\* the texts of the answers with a status outside 2xx
BulkErrorTexts ==
    {NoText, JsonText(JObject(("errors" :> JBool(FALSE))
                              @@ ("items" :> JArray(<<>>))))}

(***************************************************************************)
(* Scroll.  The JSON values of a scroll response are what jsoncpp makes of *)
(* the text; a string value carries its content.                           *)
(***************************************************************************)
JStr(str) == [type |-> "string", val |-> str]
JNull == [type |-> "null"]
\* Json::Value::isString, asString, asBool, asInt
IsString(v) == v.type = "string"

\* Scroll::Implementation::scrollTimeout and scrollSize (as it is written
\* into the URL), set by the constructor of Scroll
scrollTimeout == <<"1m">>
scrollSize == <<"100">>

\* Scroll::Implementation::scrollParameters of a new Scroll
EmptyParams ==
    [scrollId |-> <<>>, searchBody |-> <<>>, docType |-> <<>>,
     indexName |-> <<>>]

\* a ScrollParams::clear that keeps the body of the search
ScrollParams_clear_keepBody(params) ==
    [scrollId |-> <<>>, searchBody |-> params.searchBody, docType |-> <<>>,
     indexName |-> <<>>]

\* a ScrollParams::clear that clears the cursor token only
ScrollParams_clear_tokenOnly(params) == [params EXCEPT !.scrollId = <<>>]

\* Scroll::Implementation::ScrollParams::clear
ScrollParams_clear(params) ==
    [scrollId |-> <<>>, searchBody |-> <<>>, docType |-> <<>>,
     indexName |-> <<>>]

\* Scroll::Implementation::isInitialized: init has stored the parameters
\* of a search and clear has not emptied them
isInitialized(params) == ~StrEmpty(params.searchBody)

\* Scroll::Implementation::isScrollStarted: a cursor token is held
isScrollStarted(params) == ~StrEmpty(params.scrollId)

\* the arguments of one Client::performRequest call
Call(method, urlPath, text) ==
    [method |-> method, urlPath |-> urlPath, body |-> text]

\* a rejected response that makes the Scroll forget its cursor token
NoPage_dropToken(sid, old) ==
    [return |-> FALSE, threw |-> FALSE, scrollId |-> <<>>,
     parsedResult |-> old]

\* what parseResult and run give back for a response that is no page:
\* false, the cursor token and the caller's parsedResult as they were
NoPage(sid, old) ==
    [return |-> FALSE, threw |-> FALSE, scrollId |-> sid,
     parsedResult |-> old]

\* a parseResult that keeps a cursor token it already holds
parseResult_keepToken(text, sid, old) ==
    IF text.parse # "ok" THEN NoPage(sid, old)
    ELSE LET root == text.root
         IN  IF ~IsObject(root) /\ root # JNull
             THEN [return |-> FALSE, threw |-> TRUE, scrollId |-> sid,
                   parsedResult |-> old]
             ELSE IF HasMember(root, "error")
                     /\ (~IsBool(root.members["error"])
                         \/ root.members["error"].val)
             THEN NoPage(sid, old)
             ELSE IF HasMember(root, "timed_out")
                     /\ (~IsBool(root.members["timed_out"])
                         \/ root.members["timed_out"].val)
             THEN NoPage(sid, old)
             ELSE IF ~(HasMember(root, "_shards")
                       /\ IsObject(root.members["_shards"]))
             THEN NoPage(sid, old)
             ELSE IF ~(HasMember(root.members["_shards"], "failed")
                       /\ IsInt(root.members["_shards"].members["failed"]))
             THEN NoPage(sid, old)
             ELSE IF root.members["_shards"].members["failed"].val > 0
             THEN NoPage(sid, old)
             ELSE IF HasMember(root, "hits")
                     /\ IsObject(root.members["hits"])
                     /\ HasMember(root.members["hits"], "hits")
                     /\ IsArray(root.members["hits"].members["hits"])
                     /\ HasMember(root, "_scroll_id")
                     /\ IsString(root.members["_scroll_id"])
             THEN [return |-> TRUE, threw |-> FALSE,
                   scrollId |-> IF StrEmpty(sid)
                                THEN root.members["_scroll_id"].val
                                ELSE sid,
                   parsedResult |-> root.members["hits"]]
             ELSE NoPage(sid, old)

\* Scroll::Implementation::parseResult on the text of a response, sid the
\* cursor token held, old the caller's parsedResult: the value returned,
\* whether jsoncpp raised (isMember on a root that is neither an object nor
\* null), the new cursor token and the new parsedResult
parseResult(text, sid, old) ==
    IF text.parse # "ok" THEN NoPage(sid, old)
    ELSE LET root == text.root
         IN  IF ~IsObject(root) /\ root # JNull
             THEN [return |-> FALSE, threw |-> TRUE, scrollId |-> sid,
                   parsedResult |-> old]
             ELSE IF HasMember(root, "error")
                     /\ (~IsBool(root.members["error"])
                         \/ root.members["error"].val)
             THEN NoPage(sid, old)
             ELSE IF HasMember(root, "timed_out")
                     /\ (~IsBool(root.members["timed_out"])
                         \/ root.members["timed_out"].val)
             THEN NoPage(sid, old)
             ELSE IF ~(HasMember(root, "_shards")
                       /\ IsObject(root.members["_shards"]))
             THEN NoPage(sid, old)
             ELSE IF ~(HasMember(root.members["_shards"], "failed")
                       /\ IsInt(root.members["_shards"].members["failed"]))
             THEN NoPage(sid, old)
             ELSE IF root.members["_shards"].members["failed"].val > 0
             THEN NoPage(sid, old)
             ELSE IF HasMember(root, "hits")
                     /\ IsObject(root.members["hits"])
                     /\ HasMember(root.members["hits"], "hits")
                     /\ IsArray(root.members["hits"].members["hits"])
                     /\ HasMember(root, "_scroll_id")
                     /\ IsString(root.members["_scroll_id"])
             THEN [return |-> TRUE, threw |-> FALSE,
                   scrollId |-> root.members["_scroll_id"].val,
                   parsedResult |-> root.members["hits"]]
             ELSE NoPage(sid, old)

\* a run that does not catch the ConnectionException of performRequest
Scroll_run_noCatch(end, r, sid, old) ==
    IF end = "ConnectionException"
    THEN [return |-> FALSE, threw |-> TRUE, scrollId |-> sid,
          parsedResult |-> old]
    ELSE IF r.status_code \div 100 = 2 \/ r.status_code = 404
    THEN parseResult(r.text, sid, old)
    ELSE NoPage(sid, old)

\* a run that takes only the statuses 2xx
Scroll_run_no404(end, r, sid, old) ==
    IF end = "ConnectionException" THEN NoPage(sid, old)
    ELSE IF r.status_code \div 100 = 2
    THEN parseResult(r.text, sid, old)
    ELSE NoPage(sid, old)

\* a run that forgets the cursor token when its request fails
Scroll_run_forgetOnFailure(end, r, sid, old) ==
    IF end = "ConnectionException" THEN NoPage(<<>>, old)
    ELSE IF r.status_code \div 100 = 2 \/ r.status_code = 404
    THEN parseResult(r.text, sid, old)
    ELSE NoPage(<<>>, old)

\* Scroll::Implementation::run after its performRequest call has ended with
\* `end` and the response r
Scroll_run(end, r, sid, old) ==
    IF end = "ConnectionException" THEN NoPage(sid, old)
    ELSE IF r.status_code \div 100 = 2 \/ r.status_code = 404
    THEN parseResult(r.text, sid, old)
    ELSE NoPage(sid, old)

\* Scroll::createScroll: the request it makes through run
createScroll(params) ==
    Call("POST",
         params.indexName \o <<"/">> \o params.docType
         \o <<"/_search?scroll=">> \o scrollTimeout \o <<"&size=">>
         \o scrollSize,
         params.searchBody)

\* a next that does not look whether the Scroll is initialized
Scroll_next_noInitCheck(params) ==
    IF ~isScrollStarted(params)
    THEN [request |-> TRUE, who |-> "scroll.create",
          calls |-> <<createScroll(params)>>]
    ELSE [request |-> TRUE, who |-> "scroll.next",
          calls |-> <<Call("POST",
                           <<"_search/scroll?scroll=">> \o scrollTimeout,
                           params.scrollId)>>]

\* Scroll::next up to its request: whether it makes one, by createScroll
\* or as a scroll-next, and the request
Scroll_next(params) ==
    IF ~isInitialized(params)
    THEN [request |-> FALSE, who |-> "none", calls |-> <<>>]
    ELSE IF ~isScrollStarted(params)
    THEN [request |-> TRUE, who |-> "scroll.create",
          calls |-> <<createScroll(params)>>]
    ELSE [request |-> TRUE, who |-> "scroll.next",
          calls |-> <<Call("POST",
                           <<"_search/scroll?scroll=">> \o scrollTimeout,
                           params.scrollId)>>]

\* ScrollByScan::createScroll: the request it makes through run; the
\* constructor leaves scrollSize alone when primaryShardsCount is 0
ScrollByScan_createScroll(params) ==
    Call("POST",
         params.indexName \o <<"/">> \o params.docType
         \o <<"/_search?scroll=">> \o scrollTimeout \o <<"&size=">>
         \o scrollSize \o <<"&search_type=scan">>,
         params.searchBody)

\* Scroll::next of a ScrollByScan up to its request: createScroll is the
\* override of ScrollByScan
ScrollByScan_next(params) ==
    IF ~isInitialized(params)
    THEN [request |-> FALSE, who |-> "none", calls |-> <<>>]
    ELSE IF ~isScrollStarted(params)
    THEN [request |-> TRUE, who |-> "scan.create",
          calls |-> <<ScrollByScan_createScroll(params)>>]
    ELSE [request |-> TRUE, who |-> "scroll.next",
          calls |-> <<Call("POST",
                           <<"_search/scroll?scroll=">> \o scrollTimeout,
                           params.scrollId)>>]

\* a createScroll of ScrollByScan that returns what run returned
ScrollByScan_createScroll_end_noNext(ret, params) ==
    [request |-> FALSE, who |-> "none", calls |-> <<>>, return |-> ret]

\* ScrollByScan::createScroll after run returned ret and left params: it
\* calls next again, or returns false
ScrollByScan_createScroll_end(ret, params) ==
    IF ret
    THEN LET n == ScrollByScan_next(params)
         IN  [request |-> n.request, who |-> n.who, calls |-> n.calls,
              return |-> FALSE]
    ELSE [request |-> FALSE, who |-> "none", calls |-> <<>>,
          return |-> FALSE]

\* a clear that empties the parameters before it makes its request
Scroll_clear_emptyFirst(params) ==
    IF ~isScrollStarted(params) THEN <<>>
    ELSE <<Call("DELETE", <<"_search/scroll/">>,
                ScrollParams_clear(params).scrollId)>>

\* a clear that makes its request also when no cursor token is held
Scroll_clear_always(params) ==
    <<Call("DELETE", <<"_search/scroll/">>, params.scrollId)>>

\* Scroll::clear up to the end of its request: the requests it makes
Scroll_clear(params) ==
    IF ~isScrollStarted(params) THEN <<>>
    ELSE <<Call("DELETE", <<"_search/scroll/">>, params.scrollId)>>

\* a clear that does not catch the ConnectionException of its request
Scroll_clear_end_noCatch(end, r, params) ==
    IF end = "ConnectionException"
    THEN [threw |-> TRUE, scrollParameters |-> params]
    ELSE [threw |-> FALSE, scrollParameters |-> ScrollParams_clear(params)]

\* Scroll::clear from the end of its request, which ended with `end` and
\* the response r: a status outside 2xx is logged, ConnectionException is
\* caught and logged, and the parameters are cleared
Scroll_clear_end(end, r, params) ==
    [threw |-> FALSE, scrollParameters |-> ScrollParams_clear(params)]

\* a destructor that does not call clear
Scroll_destroy_noClear(params) == <<>>

\* Scroll::~Scroll with an impl: the requests of the clear it calls
Scroll_destroy(params) == Scroll_clear(params)

\* Scroll::~Scroll: whether an exception of its clear leaves it; the
\* destructor catches std::exception
Scroll_destroy_end(threw) == FALSE

\* an init that never calls clear
Scroll_init_noClear(params) == FALSE

\* Scroll::init: whether it calls clear first
Scroll_init(params) == isInitialized(params) \/ isScrollStarted(params)

\* Scroll::init: the assignments after the clear
Scroll_init_store(params, indexName, docType, searchBody) ==
    [params EXCEPT !.indexName = indexName, !.docType = docType,
                   !.searchBody = searchBody]

\* the caller's parsedResult before any page was handed to it
NoResult == JNull

\* the answer of a page of n hits with the cursor token sid
Hits(n) == JObject("hits" :> JArray([i \in 1 .. n |-> JObject(NoMembers)]))
Page(sid, n) ==
    JObject(("_scroll_id" :> JStr(sid))
            @@ ("_shards" :> JObject("failed" :> JInt(0)))
            @@ ("hits" :> Hits(n)))

\* the cursor tokens and pages of the server of the tests, and a page with
\* an empty cursor token
ScrollPages ==
    {Page(<<"A0">>, 2), Page(<<"A1">>, 3), Page(<<"A2">>, 0), Page(<<>>, 2)}

\* answers that are no page: no shards, failed shards (the answer to A2 of
\* the test server), an error, a timeout, no cursor token, a root that is
\* null, a root that is an array
ScrollNoPages ==
    {JObject(NoMembers),
     JObject(("_scroll_id" :> JStr(<<"A3">>))
             @@ ("_shards" :> JObject("failed" :> JInt(1)))
             @@ ("hits" :> Hits(0))),
     JObject(("error" :> JBool(TRUE))
             @@ ("_scroll_id" :> JStr(<<"A1">>))
             @@ ("_shards" :> JObject("failed" :> JInt(0)))
             @@ ("hits" :> Hits(2))),
     JObject(("timed_out" :> JBool(TRUE))
             @@ ("_scroll_id" :> JStr(<<"A1">>))
             @@ ("_shards" :> JObject("failed" :> JInt(0)))
             @@ ("hits" :> Hits(2))),
     JObject(("_shards" :> JObject("failed" :> JInt(0)))
             @@ ("hits" :> Hits(2))),
     JNull,
     JArray(<<>>)}

\* the texts a node answers a scroll request with
ScrollTexts ==
    {NoText, GarbageText}
    \cup {JsonText(r) : r \in ScrollPages \cup ScrollNoPages}

\* the texts of the answers with a status other than 2xx and 404
ScrollErrorTexts == {NoText, JsonText(Page(<<"A1">>, 3))}

\* the texts a node answers the DELETE of a cursor with
ScrollDeleteTexts == {NoText, JsonText(JObject(NoMembers))}

\* the object root with the member key set to v, or without that member
With(root, key, v) == JObject((key :> v) @@ root.members)
Without(root, key) ==
    JObject([k \in (DOMAIN root.members) \ {key} |-> root.members[k]])

\* the page A0 of the server of the tests, whose variants follow
FirstPage == Page(<<"A0">>, 2)

\* variants of the page A0 that parseResult takes as a page: an error or a
\* timed_out that is false, a negative number of failed shards
VariantPages ==
    {FirstPage,
     With(FirstPage, "error", JBool(FALSE)),
     With(FirstPage, "timed_out", JBool(FALSE)),
     With(FirstPage, "_shards", JObject("failed" :> JInt(-1)))}

\* variants of the page A0 that parseResult does not take as a page
VariantNoPages ==
    {With(FirstPage, "error", JBool(TRUE)),
     With(FirstPage, "error", JStr(<<"x">>)),
     With(FirstPage, "timed_out", JBool(TRUE)),
     With(FirstPage, "timed_out", JInt(0)),
     Without(FirstPage, "_shards"),
     With(FirstPage, "_shards", JInt(0)),
     With(FirstPage, "_shards", JObject(NoMembers)),
     With(FirstPage, "_shards", JObject("failed" :> JStr(<<"0">>))),
     With(FirstPage, "_shards", JObject("failed" :> JInt(1))),
     Without(FirstPage, "hits"),
     With(FirstPage, "hits", JArray(<<>>)),
     With(FirstPage, "hits", JObject(NoMembers)),
     With(FirstPage, "hits", JObject("hits" :> JInt(0))),
     Without(FirstPage, "_scroll_id"),
     With(FirstPage, "_scroll_id", JInt(7)),
     With(With(FirstPage, "_scroll_id", JStr(<<"A3">>)), "error",
          JBool(TRUE)),
     JNull,
     JArray(<<>>)}

\* the texts a node answers with when every member of the answer varies
VariantTexts ==
    {NoText, GarbageText}
    \cup {JsonText(r) : r \in VariantPages \cup VariantNoPages}

\* the statuses of these answers
VariantStatuses == {0, 200, 404, 500}

\* the statuses the nodes answer a Scroll with
ScrollStatuses == {0, 200, 404}

\* the arguments given to init
ScrollIndexes == {<<"test_scroll_ok*">>}
ScrollTypes == {<<"fake_index">>}
ScrollBodies == {<<"{}">>, <<"{query}">>}

\* how run took the response of a call: accepted as a page, with the cursor
\* token and the hits of the response, or not
Answer(r, resp) ==
    IF r.return
    THEN [accepted |-> TRUE,
          token |-> resp.text.root.members["_scroll_id"].val,
          hits |-> resp.text.root.members["hits"]]
    ELSE [accepted |-> FALSE, token |-> <<>>, hits |-> JNull]

\* init has no pending arguments
NoInitArgs == <<>>

(***************************************************************************)
(* Client: search, get, index, remove                                      *)
(***************************************************************************)
\* a fillIndexAndTypeInUrlPath that accepts empty names
fillIndexAndTypeInUrlPath_noCheck(indexName, indexNameNotEmpty, docType, docTypeNotEmpty, urlPath) ==
    [threw |-> FALSE,
     urlPath |-> urlPath
                 \o (IF StrEmpty(indexName) THEN <<>>
                     ELSE indexName \o <<"/">>)
                 \o (IF StrEmpty(docType) THEN <<>>
                     ELSE docType \o <<"/">>)]

\* fillIndexAndTypeInUrlPath: whether it raises std::runtime_error, and
\* urlPath after it
fillIndexAndTypeInUrlPath(indexName, indexNameNotEmpty, docType, docTypeNotEmpty, urlPath) ==
    IF indexNameNotEmpty /\ StrEmpty(indexName)
    THEN [threw |-> TRUE, urlPath |-> urlPath]
    ELSE LET withIndex == IF ~StrEmpty(indexName)
                          THEN urlPath \o indexName \o <<"/">>
                          ELSE urlPath
         IN  IF docTypeNotEmpty /\ StrEmpty(docType)
             THEN [threw |-> TRUE, urlPath |-> withIndex]
             ELSE IF ~StrEmpty(docType)
             THEN [threw |-> FALSE,
                   urlPath |-> withIndex \o docType \o <<"/">>]
             ELSE [threw |-> FALSE, urlPath |-> withIndex]

\* fillRoutingInUrlPath
fillRoutingInUrlPath(routing, urlPath) ==
    IF ~StrEmpty(routing) THEN urlPath \o <<"?routing=">> \o routing
    ELSE urlPath

\* Client::search up to its performRequest call: whether it raises
\* std::runtime_error, else the method and the URL path of the request
Client_search(indexName, docType, routing) ==
    LET f == fillIndexAndTypeInUrlPath(indexName, FALSE, docType, FALSE,
                                       <<>>)
    IN  IF f.threw THEN [threw |-> TRUE, method |-> "none", urlPath |-> <<>>]
        ELSE [threw |-> FALSE, method |-> "POST",
              urlPath |-> fillRoutingInUrlPath(routing,
                                               f.urlPath \o <<"_search">>)]

\* Client::get up to its performRequest call
Client_get(indexName, docType, id, routing) ==
    LET f == fillIndexAndTypeInUrlPath(indexName, TRUE, docType, TRUE, <<>>)
    IN  IF f.threw \/ StrEmpty(id)
        THEN [threw |-> TRUE, method |-> "none", urlPath |-> <<>>]
        ELSE [threw |-> FALSE, method |-> "GET",
              urlPath |-> fillRoutingInUrlPath(routing, f.urlPath \o id)]

\* Client::index up to its performRequest call
Client_index(indexName, docType, id, routing) ==
    LET f == fillIndexAndTypeInUrlPath(indexName, TRUE, docType, TRUE, <<>>)
    IN  IF f.threw THEN [threw |-> TRUE, method |-> "none", urlPath |-> <<>>]
        ELSE [threw |-> FALSE, method |-> "POST",
              urlPath |->
                  fillRoutingInUrlPath(routing,
                                       IF ~StrEmpty(id) THEN f.urlPath \o id
                                       ELSE f.urlPath)]

\* Client::remove up to its performRequest call
Client_remove(indexName, docType, id, routing) ==
    LET f == fillIndexAndTypeInUrlPath(indexName, TRUE, docType, TRUE, <<>>)
    IN  IF f.threw \/ StrEmpty(id)
        THEN [threw |-> TRUE, method |-> "none", urlPath |-> <<>>]
        ELSE [threw |-> FALSE, method |-> "DELETE",
              urlPath |-> fillRoutingInUrlPath(routing, f.urlPath \o id)]

\* no call of search, get, index or remove was made
NoCall ==
    [threw |-> FALSE, method |-> "none", urlPath |-> <<>>,
     indexName |-> <<>>, docType |-> <<>>, id |-> <<>>, routing |-> <<>>,
     failedBefore |-> 0]

\* the two threads that call performRequest on one Client
Threads == {1, 2}

\* no thread has called performRequest
NoThreads ==
    [t \in Threads |-> [pc |-> "idle", requests |-> <<>>, outcome |-> "none"]]

(***************************************************************************)
(* Initial state: a constructed Client of at most maxHosts nodes that      *)
(* answer with the given statuses, an empty batch of a desired size out of *)
(* sizes, a new Bulk                                                       *)
(***************************************************************************)
\* lastAdd when the most recent operation is not an add
NoArgs ==
    [action |-> "none", docType |-> <<>>, id |-> <<>>, doc |-> <<>>,
     validate |-> FALSE, threw |-> FALSE]

InitWith(maxHosts, statuses, sizes) ==
    /\ \E n \in 1 .. maxHosts : hostUrlList = [i \in 1 .. n |-> i - 1]
    /\ \E rnd \in 0 .. (maxHosts - 1) :
          /\ rnd < Len(hostUrlList)
          /\ currentHostIndex = resetCurrentHostInfo(rnd).currentHostIndex
          /\ failCounter = resetCurrentHostInfo(rnd).failCounter
    /\ nodeStatus \in [0 .. (Len(hostUrlList) - 1) -> statuses]
    /\ pc = "idle"
    /\ caller = "none"
    /\ requests = <<>>
    /\ response = NoResponse
    /\ outcome = "none"
    /\ changed = FALSE
    /\ data = <<>>
    /\ errCount = 0
    /\ op = "none"
    /\ performRet = 0
    /\ errBefore = 0
    /\ parsed = FALSE
    /\ raised = FALSE
    /\ selectorBefore = <<currentHostIndex, failCounter>>
    /\ implSize \in sizes
    /\ addRet = FALSE
    /\ added = <<>>
    /\ lastAdd = NoArgs
    /\ dataBefore = <<>>
    /\ scrollParameters = EmptyParams
    /\ scrollCalls = <<>>
    /\ nextRet = FALSE
    /\ parsedResult = NoResult
    /\ scrollRaised = FALSE
    /\ pages = <<>>
    /\ paramsBefore = EmptyParams
    /\ initArgs = NoInitArgs
    /\ scrollAnswers = <<>>
    /\ facadeCall = NoCall
    /\ answeredBy = -1
    /\ threads = NoThreads
    /\ lifecycle = "new"

Init == InitWith(MaxHosts, Statuses, {MaxBatch})

BulkInit == InitWith(MaxBulkHosts, BulkStatuses, {MaxBatch})

\* batches of every desired size up to MaxBatch, 0 included
DataInit == InitWith(1, {200}, 0 .. MaxBatch)

\* a new Scroll on a Client of at most MaxBulkHosts nodes
ScrollInit == InitWith(MaxBulkHosts, ScrollStatuses, {MaxBatch})

(***************************************************************************)
(* Environment                                                             *)
(***************************************************************************)
\* node h starts to answer with status s
NodeChange(h, s) ==
    /\ nodeStatus[h] # s
    /\ nodeStatus' = [nodeStatus EXCEPT ![h] = s]
    /\ changed' = TRUE
    /\ UNCHANGED <<clientVars, pc, caller, requests, response, outcome,
                   bulkVars, op, selectorBefore, dataVars, facadeCall, answeredBy, threads, scrollVars>>

(***************************************************************************)
(* Client                                                                  *)
(***************************************************************************)
\* entry of a performRequest call
StartRequest(who) ==
    /\ pc' = "request"
    /\ caller' = who
    /\ requests' = <<>>
    /\ response' = NoResponse
    /\ outcome' = "none"
    /\ changed' = FALSE

\* an operation that ends without a performRequest call
NoRequest ==
    /\ pc' = "idle"
    /\ caller' = "none"
    /\ requests' = <<>>
    /\ response' = NoResponse
    /\ outcome' = "none"
    /\ changed' = FALSE

\* the node whose response ended the most recent performRequest call
Responder ==
    IF outcome = "response" THEN requests[Len(requests)].host ELSE -1

\* Client::search, get, index or remove, whose code up to performRequest
\* gave the call c
Facade(name, c, indexName, docType, id, routing) ==
    /\ pc = "idle"
    /\ op' = name
    /\ selectorBefore' = <<currentHostIndex, failCounter>>
    /\ IF c.threw THEN NoRequest ELSE StartRequest("client")
    /\ answeredBy' = IF c.threw THEN answeredBy ELSE Responder
    /\ facadeCall' = [threw |-> c.threw, method |-> c.method,
                      urlPath |-> c.urlPath, indexName |-> indexName,
                      docType |-> docType, id |-> id, routing |-> routing,
                      failedBefore |-> IF outcome = "response"
                                       THEN Len(requests) - 1 ELSE 0]
    /\ UNCHANGED <<clientVars, nodeStatus, bulkVars, dataVars, scrollVars,
                   threads>>

ClientSearch(indexName, docType, routing) ==
    Facade("search", Client_search(indexName, docType, routing),
           indexName, docType, <<>>, routing)

ClientGet(indexName, docType, id, routing) ==
    Facade("get", Client_get(indexName, docType, id, routing),
           indexName, docType, id, routing)

ClientIndex(indexName, docType, id, routing) ==
    Facade("index", Client_index(indexName, docType, id, routing),
           indexName, docType, id, routing)

ClientRemove(indexName, docType, id, routing) ==
    Facade("remove", Client_remove(indexName, docType, id, routing),
           indexName, docType, id, routing)

\* Client::performRequest called by the user of the Client
ClientPerformRequest ==
    /\ pc = "idle"
    /\ StartRequest("client")
    /\ op' = "performRequest"
    /\ selectorBefore' = <<currentHostIndex, failCounter>>
    /\ UNCHANGED <<clientVars, nodeStatus, bulkVars, dataVars, facadeCall,
                   answeredBy, threads, scrollVars>>

\* one pass of the while loop of Client::Implementation::performRequest
Attempt(text) ==
    /\ pc = "request"
    /\ nodeStatus[currentHostIndex] = 0 => text = NoText
    /\ \E rnd \in HostIndexes :
          LET status_code == nodeStatus[currentHostIndex]
              r == performRequest(currentHostIndex, failCounter, HostCount,
                                  status_code, rnd)
          IN  /\ requests' = Append(requests, [host |-> currentHostIndex,
                                               status_code |-> status_code,
                                               text |-> text])
              /\ response' = [status_code |-> status_code, text |-> text]
              /\ currentHostIndex' = r.currentHostIndex
              /\ failCounter' = r.failCounter
              /\ outcome' = r.end
              /\ pc' = IF r.end = "none" THEN "request" ELSE "return"
    /\ UNCHANGED <<hostUrlList, nodeStatus, caller, changed, bulkVars, op,
                   selectorBefore, dataVars, facadeCall, answeredBy, threads, scrollVars>>

\* the response or the ConnectionException reaches the user of the Client
ClientReturn ==
    /\ pc = "return"
    /\ caller = "client"
    /\ pc' = "idle"
    /\ UNCHANGED <<clientVars, nodeStatus, caller, requests, response,
                   outcome, changed, bulkVars, op, selectorBefore, dataVars,
                   facadeCall, answeredBy, threads, scrollVars>>

Next ==
    \/ \E h \in HostIndexes, s \in Statuses : NodeChange(h, s)
    \/ ClientPerformRequest
    \/ \E text \in ClientTexts : Attempt(text)
    \/ ClientReturn

Spec == Init /\ [][Next]_vars

\* the arguments given to search, get, index and remove
FacadeIndexes == {<<>>, <<"idx">>}
FacadeTypes == {<<>>, <<"doc">>}
FacadeIds == {<<>>, <<"7">>}
FacadeRoutings == {<<>>, <<"r1">>}

\* the statuses the nodes answer these calls with
FacadeStatuses == {0, 200}

\* a Client of at most MaxHosts nodes
FacadeInit == InitWith(MaxHosts, FacadeStatuses, {MaxBatch})

FacadeNext ==
    \/ \E h \in HostIndexes, s \in FacadeStatuses :
          pc = "idle" /\ NodeChange(h, s)
    \/ \E indexName \in FacadeIndexes, docType \in FacadeTypes,
          routing \in FacadeRoutings :
          ClientSearch(indexName, docType, routing)
    \/ \E indexName \in FacadeIndexes, docType \in FacadeTypes,
          id \in FacadeIds, routing \in FacadeRoutings :
          ClientGet(indexName, docType, id, routing)
    \/ \E indexName \in FacadeIndexes, docType \in FacadeTypes,
          id \in FacadeIds, routing \in FacadeRoutings :
          ClientIndex(indexName, docType, id, routing)
    \/ \E indexName \in FacadeIndexes, docType \in FacadeTypes,
          id \in FacadeIds, routing \in FacadeRoutings :
          ClientRemove(indexName, docType, id, routing)
    \/ \E text \in ClientTexts : Attempt(text)
    \/ ClientReturn

FacadeSpec == FacadeInit /\ [][FacadeNext]_vars

(***************************************************************************)
(* SameIndexBulkData                                                       *)
(***************************************************************************)
\* the most recent operation is not an add
NoAdd ==
    /\ addRet' = FALSE
    /\ lastAdd' = NoArgs
    /\ dataBefore' = <<>>

\* an add operation with the outcome r on a batch of fewer than MaxBatch
\* items: the new data, the value returned, and the record of the call
Add(r, action, docType, id, doc, validate) ==
    /\ pc = "idle"
    /\ Len(data) < MaxBatch
    /\ data' = r.data
    /\ addRet' = r.return
    /\ lastAdd' = [action |-> action, docType |-> docType, id |-> id,
                   doc |-> doc, validate |-> validate, threw |-> r.threw]
    /\ dataBefore' = data
    /\ added' = IF r.threw THEN added
                ELSE Append(added, [action |-> action, docType |-> docType,
                                    id |-> id, doc |-> doc,
                                    validate |-> validate])
    /\ NoRequest
    /\ UNCHANGED <<clientVars, nodeStatus, errCount, performRet, errBefore,
                   parsed, raised, selectorBefore, implSize, scrollVars, facadeCall, answeredBy, threads>>

\* SameIndexBulkData::indexDocument(docType, id, doc, validate)
IndexDocument(docType, id, doc, validate) ==
    /\ Add(indexDocument(data, implSize, docType, id, doc, validate),
           "index", docType, id, doc, validate)
    /\ op' = "indexDocument"

\* SameIndexBulkData::indexDocument(docType, id, doc)
IndexDocument3(docType, id, doc) ==
    /\ Add(indexDocument3(data, implSize, docType, id, doc),
           "index", docType, id, doc, TRUE)
    /\ op' = "indexDocument"

\* SameIndexBulkData::createDocument(docType, id, doc, validate)
CreateDocument(docType, id, doc, validate) ==
    /\ Add(createDocument(data, implSize, docType, id, doc, validate),
           "create", docType, id, doc, validate)
    /\ op' = "createDocument"

\* SameIndexBulkData::createDocument(docType, id, doc)
CreateDocument3(docType, id, doc) ==
    /\ Add(createDocument3(data, implSize, docType, id, doc),
           "create", docType, id, doc, TRUE)
    /\ op' = "createDocument"

\* SameIndexBulkData::updateDocument(docType, id, doc, validate)
UpdateDocument(docType, id, doc, validate) ==
    /\ Add(updateDocument(data, implSize, docType, id, doc, validate),
           "update", docType, id, doc, validate)
    /\ op' = "updateDocument"

\* SameIndexBulkData::updateDocument(docType, id, doc)
UpdateDocument3(docType, id, doc) ==
    /\ Add(updateDocument3(data, implSize, docType, id, doc),
           "update", docType, id, doc, TRUE)
    /\ op' = "updateDocument"

\* SameIndexBulkData::clear
Clear ==
    /\ pc = "idle"
    /\ data' = clear(data)
    /\ added' = <<>>
    /\ op' = "clear"
    /\ NoAdd
    /\ NoRequest
    /\ UNCHANGED <<clientVars, nodeStatus, errCount, performRet, errBefore,
                   parsed, raised, selectorBefore, implSize, scrollVars, facadeCall, answeredBy, threads>>

\* the types, ids and documents given to the add operations
DataTypes == {<<"typeX">>}
DataIds == {<<>>, <<"id1">>}
DataDocs == {<<>>, <<"{data1}">>, <<"{", "\n", "}">>}

DataNext ==
    \/ \E docType \in DataTypes, id \in DataIds, doc \in DataDocs :
          \/ IndexDocument3(docType, id, doc)
          \/ CreateDocument3(docType, id, doc)
          \/ UpdateDocument3(docType, id, doc)
          \/ \E validate \in BOOLEAN :
                \/ IndexDocument(docType, id, doc, validate)
                \/ CreateDocument(docType, id, doc, validate)
                \/ UpdateDocument(docType, id, doc, validate)
    \/ Clear

DataSpec == DataInit /\ [][DataNext]_vars

(***************************************************************************)
(* Bulk                                                                    *)
(***************************************************************************)
\* Bulk::perform is called on the batch: it returns 0 at once, or resets
\* errCount and, in run, calls performRequest
Perform ==
    /\ pc = "idle"
    /\ op' = "perform"
    /\ errBefore' = errCount
    /\ selectorBefore' = <<currentHostIndex, failCounter>>
    /\ parsed' = FALSE
    /\ raised' = FALSE
    /\ errCount' = perform(empty(data), errCount).errCount
    /\ IF perform(empty(data), errCount).return
       THEN /\ performRet' = 0
            /\ NoRequest
       ELSE /\ StartRequest("bulk")
            /\ UNCHANGED performRet
    /\ NoAdd
    /\ UNCHANGED <<clientVars, nodeStatus, data, implSize, added, scrollVars, facadeCall, answeredBy, threads>>

\* performRequest has ended: the rest of run, and perform returns errCount
RunReturn ==
    /\ pc = "return"
    /\ caller = "bulk"
    /\ LET r == run(outcome, response, size(data), errCount)
       IN  /\ errCount' = r.errCount
           /\ parsed' = r.parsed
           /\ raised' = r.raised
           /\ performRet' = r.errCount
    /\ data' = Bulk_perform_batch(data)
    /\ pc' = "idle"
    /\ UNCHANGED <<clientVars, nodeStatus, caller, requests, response,
                   outcome, changed, errBefore, op, selectorBefore,
                   dataVars, facadeCall, answeredBy, threads, scrollVars>>

\* the documents put into the batches that are performed
BulkDocs == {<<"{data1}">>, <<"{", "\n", "}">>}

BulkNext ==
    \/ \E doc \in BulkDocs : IndexDocument(<<"typeX">>, <<"id1">>, doc, TRUE)
    \/ Clear
    \/ Perform
    \/ \E text \in BulkTexts :
          /\ nodeStatus[currentHostIndex] \notin 200 .. 299 =>
                text \in BulkErrorTexts
          /\ Attempt(text)
    \/ RunReturn

BulkSpec == BulkInit /\ [][BulkNext]_vars

(***************************************************************************)
(* Scroll                                                                  *)
(***************************************************************************)
\* entry of an operation of Scroll that makes the requests calls
ScrollEntry(name, calls) ==
    /\ pc = "idle"
    /\ lifecycle # "destroyed"
    /\ op' = name
    /\ scrollCalls' = calls
    /\ scrollAnswers' = <<>>
    /\ paramsBefore' = scrollParameters
    /\ scrollRaised' = FALSE
    /\ selectorBefore' = <<currentHostIndex, failCounter>>
    /\ UNCHANGED <<clientVars, nodeStatus, bulkVars, dataVars, facadeCall, answeredBy, threads>>

\* the most recent operation is not a next
NoNext ==
    /\ nextRet' = FALSE
    /\ parsedResult' = NoResult

\* Scroll::init: with clear, which makes its request or not, or without
ScrollInitOp(indexName, docType, searchBody) ==
    LET calls == IF Scroll_init(scrollParameters)
                 THEN Scroll_clear(scrollParameters) ELSE <<>>
        cleared == IF Scroll_init(scrollParameters)
                   THEN ScrollParams_clear(scrollParameters)
                   ELSE scrollParameters
    IN  /\ ScrollEntry("init", calls)
        /\ IF calls # <<>>
           THEN /\ StartRequest("scroll.init")
                /\ UNCHANGED <<scrollParameters, pages, lifecycle>>
           ELSE /\ NoRequest
                /\ scrollParameters' =
                      Scroll_init_store(cleared, indexName, docType,
                                        searchBody)
                /\ pages' = <<>>
                /\ lifecycle' = "init"
        /\ initArgs' = <<indexName, docType, searchBody>>
        /\ NoNext

\* the request of the clear inside init has ended: the rest of clear, and
\* init stores its arguments
ScrollInitReturn ==
    /\ pc = "return"
    /\ caller = "scroll.init"
    /\ LET c == Scroll_clear_end(outcome, response, scrollParameters)
       IN  /\ scrollRaised' = c.threw
           /\ IF c.threw
              THEN /\ scrollParameters' = c.scrollParameters
                   /\ UNCHANGED <<pages, lifecycle>>
              ELSE /\ scrollParameters' =
                         Scroll_init_store(c.scrollParameters, initArgs[1],
                                           initArgs[2], initArgs[3])
                   /\ pages' = <<>>
                   /\ lifecycle' = "init"
    /\ pc' = "idle"
    /\ UNCHANGED <<clientVars, nodeStatus, caller, requests, response,
                   outcome, changed, bulkVars, op, selectorBefore, dataVars, facadeCall, answeredBy, threads,
                   scrollCalls, nextRet, parsedResult, paramsBefore,
                   initArgs, scrollAnswers>>

\* Scroll::next, called with a parsedResult that is null: it returns false
\* at once, or makes the request of createScroll or of a scroll-next
ScrollNextOp ==
    LET n == Scroll_next(scrollParameters)
    IN  /\ ScrollEntry("next", n.calls)
        /\ IF n.request THEN StartRequest(n.who) ELSE NoRequest
        /\ nextRet' = FALSE
        /\ parsedResult' = NoResult
        /\ initArgs' = NoInitArgs
        /\ UNCHANGED <<scrollParameters, pages, lifecycle>>

\* the request of createScroll or next has ended: the rest of run, and
\* next returns
ScrollRunReturn ==
    /\ pc = "return"
    /\ caller \in {"scroll.create", "scroll.next"}
    /\ LET r == Scroll_run(outcome, response, scrollParameters.scrollId,
                           parsedResult)
       IN  /\ scrollParameters' =
                 [scrollParameters EXCEPT !.scrollId = r.scrollId]
           /\ nextRet' = r.return
           /\ parsedResult' = r.parsedResult
           /\ scrollRaised' = r.threw
           /\ pages' =
                 IF r.return
                 THEN Append(pages,
                             [token |->
                                 response.text.root.members["_scroll_id"].val,
                              hits |->
                                 Len(r.parsedResult.members["hits"].elems),
                              sent |-> scrollCalls[Len(scrollCalls)]])
                 ELSE pages
           /\ scrollAnswers' = Append(scrollAnswers, Answer(r, response))
    /\ pc' = "idle"
    /\ UNCHANGED <<clientVars, nodeStatus, caller, requests, response,
                   outcome, changed, bulkVars, op, selectorBefore, dataVars, facadeCall, answeredBy, threads,
                   scrollCalls, paramsBefore, initArgs, lifecycle>>

\* Scroll::clear: it makes its request, or empties the parameters at once
ScrollClearOp ==
    LET calls == Scroll_clear(scrollParameters)
    IN  /\ ScrollEntry("clear", calls)
        /\ IF calls # <<>>
           THEN /\ StartRequest("scroll.clear")
                /\ UNCHANGED <<scrollParameters, pages, lifecycle>>
           ELSE /\ NoRequest
                /\ scrollParameters' = ScrollParams_clear(scrollParameters)
                /\ pages' = <<>>
                /\ lifecycle' = IF lifecycle = "new" THEN "new"
                                ELSE "cleared"
        /\ NoNext
        /\ initArgs' = NoInitArgs

\* the request of clear has ended, with a response or with the
\* ConnectionException that clear catches: it empties the parameters
ScrollClearReturn ==
    /\ pc = "return"
    /\ caller = "scroll.clear"
    /\ LET c == Scroll_clear_end(outcome, response, scrollParameters)
       IN  /\ scrollRaised' = c.threw
           /\ scrollParameters' = c.scrollParameters
           /\ IF c.threw
              THEN UNCHANGED <<pages, lifecycle>>
              ELSE /\ pages' = <<>>
                   /\ lifecycle' = "released"
    /\ pc' = "idle"
    /\ UNCHANGED <<clientVars, nodeStatus, caller, requests, response,
                   outcome, changed, bulkVars, op, selectorBefore, dataVars, facadeCall, answeredBy, threads,
                   scrollCalls, nextRet, parsedResult, paramsBefore,
                   initArgs, scrollAnswers>>

\* Scroll::~Scroll: its clear makes its request, or empties the parameters
\* at once
ScrollDestroyOp ==
    LET calls == Scroll_destroy(scrollParameters)
    IN  /\ ScrollEntry("destroy", calls)
        /\ IF calls # <<>>
           THEN /\ StartRequest("scroll.destroy")
                /\ UNCHANGED <<scrollParameters, pages, lifecycle>>
           ELSE /\ NoRequest
                /\ scrollParameters' = ScrollParams_clear(scrollParameters)
                /\ pages' = <<>>
                /\ lifecycle' = "destroyed"
        /\ NoNext
        /\ initArgs' = NoInitArgs

\* the request of the clear inside the destructor has ended: the rest of
\* clear, and the destructor ends
ScrollDestroyReturn ==
    /\ pc = "return"
    /\ caller = "scroll.destroy"
    /\ LET c == Scroll_clear_end(outcome, response, scrollParameters)
       IN  /\ scrollRaised' = Scroll_destroy_end(c.threw)
           /\ scrollParameters' = c.scrollParameters
    /\ pages' = <<>>
    /\ lifecycle' = "destroyed"
    /\ pc' = "idle"
    /\ UNCHANGED <<clientVars, nodeStatus, caller, requests, response,
                   outcome, changed, bulkVars, op, selectorBefore, dataVars, facadeCall, answeredBy, threads,
                   scrollCalls, nextRet, parsedResult, paramsBefore,
                   initArgs, scrollAnswers>>

\* a node answers the request of the Scroll
ScrollAttempt(text) ==
    /\ caller \in {"scroll.clear", "scroll.init", "scroll.destroy"} =>
          text \in ScrollDeleteTexts
    /\ caller \in {"scroll.create", "scroll.next", "scan.create"} =>
          /\ (nodeStatus[currentHostIndex] \div 100 # 2
              /\ nodeStatus[currentHostIndex] # 404) =>
                text \in ScrollErrorTexts
          /\ Len(pages) >= MaxPages =>
                text \notin {JsonText(r) : r \in ScrollPages}
    /\ Attempt(text)

ScrollNext ==
    \/ \E h \in HostIndexes, s \in ScrollStatuses :
          pc = "idle" /\ lifecycle # "destroyed" /\ NodeChange(h, s)
    \/ \E indexName \in ScrollIndexes, docType \in ScrollTypes,
          searchBody \in ScrollBodies :
          ScrollInitOp(indexName, docType, searchBody)
    \/ ScrollInitReturn
    \/ ScrollNextOp
    \/ ScrollRunReturn
    \/ ScrollClearOp
    \/ ScrollClearReturn
    \/ ScrollDestroyOp
    \/ ScrollDestroyReturn
    \/ \E text \in ScrollTexts : ScrollAttempt(text)

ScrollSpec == ScrollInit /\ [][ScrollNext]_vars

(***************************************************************************)
(* ScrollByScan                                                            *)
(***************************************************************************)
\* Scroll::next of a ScrollByScan, called with a parsedResult that is null
ScanNextOp ==
    LET n == ScrollByScan_next(scrollParameters)
    IN  /\ ScrollEntry("next", n.calls)
        /\ IF n.request THEN StartRequest(n.who) ELSE NoRequest
        /\ nextRet' = FALSE
        /\ parsedResult' = NoResult
        /\ initArgs' = NoInitArgs
        /\ UNCHANGED <<scrollParameters, pages, lifecycle>>

\* the request of ScrollByScan::createScroll has ended: the rest of run,
\* then createScroll returns false or calls next, which makes its request
ScanCreateReturn ==
    /\ pc = "return"
    /\ caller = "scan.create"
    /\ LET r == Scroll_run(outcome, response, scrollParameters.scrollId,
                           parsedResult)
           params == [scrollParameters EXCEPT !.scrollId = r.scrollId]
           e == ScrollByScan_createScroll_end(r.return, params)
       IN  /\ scrollParameters' = params
           /\ parsedResult' = r.parsedResult
           /\ pages' =
                 IF r.return
                 THEN Append(pages,
                             [token |->
                                 response.text.root.members["_scroll_id"].val,
                              hits |->
                                 Len(r.parsedResult.members["hits"].elems),
                              sent |-> scrollCalls[Len(scrollCalls)]])
                 ELSE pages
           /\ scrollAnswers' = Append(scrollAnswers, Answer(r, response))
           /\ IF e.request
              THEN /\ StartRequest(e.who)
                   /\ scrollCalls' = scrollCalls \o e.calls
                   /\ nextRet' = FALSE
                   /\ scrollRaised' = FALSE
              ELSE /\ pc' = "idle"
                   /\ nextRet' = e.return
                   /\ scrollRaised' = r.threw
                   /\ UNCHANGED <<caller, requests, response, outcome,
                                  changed, scrollCalls>>
    /\ UNCHANGED <<clientVars, nodeStatus, bulkVars, op, selectorBefore,
                   dataVars, facadeCall, answeredBy, threads, paramsBefore, initArgs, lifecycle>>

\* the search a ScrollByScan is initialized with
ScanBodies == {<<"{query}">>}

ScanNext ==
    \/ \E h \in HostIndexes, s \in ScrollStatuses :
          pc = "idle" /\ lifecycle # "destroyed" /\ NodeChange(h, s)
    \/ \E h \in HostIndexes, s \in ScrollStatuses :
          /\ pc = "request"
          /\ Len(scrollCalls) = 2
          /\ requests = <<>>
          /\ NodeChange(h, s)
    \/ \E indexName \in ScrollIndexes, docType \in ScrollTypes,
          searchBody \in ScanBodies :
          ScrollInitOp(indexName, docType, searchBody)
    \/ ScrollInitReturn
    \/ ScanNextOp
    \/ ScanCreateReturn
    \/ ScrollRunReturn
    \/ ScrollClearOp
    \/ ScrollClearReturn
    \/ \E text \in ScrollTexts : ScrollAttempt(text)

\* a new ScrollByScan on a Client of at most MaxBulkHosts nodes
ScanSpec == ScrollInit /\ [][ScanNext]_vars

(***************************************************************************)
(* Scroll, with answers of which every member varies                       *)
(***************************************************************************)
\* a node answers the request of the Scroll with any status and text
VariantAttempt(text) ==
    /\ caller = "scroll.init" => text \in ScrollDeleteTexts
    /\ (caller \in {"scroll.create", "scroll.next"}
        /\ Len(pages) >= MaxPages) =>
          text \notin {JsonText(r) : r \in VariantPages}
    /\ Attempt(text)

VariantNext ==
    \/ \E h \in HostIndexes, s \in VariantStatuses :
          pc = "idle" /\ NodeChange(h, s)
    \/ \E indexName \in ScrollIndexes, docType \in ScrollTypes,
          searchBody \in ScanBodies :
          ScrollInitOp(indexName, docType, searchBody)
    \/ ScrollInitReturn
    \/ ScrollNextOp
    \/ ScrollRunReturn
    \/ \E text \in VariantTexts : VariantAttempt(text)

\* a new Scroll on a Client of at most MaxBulkHosts nodes that answer
VariantInit == InitWith(MaxBulkHosts, VariantStatuses, {MaxBatch})

VariantSpec == VariantInit /\ [][VariantNext]_vars

(***************************************************************************)
(* One Client called by two threads without synchronization.  A step is    *)
(* one pass of the loop of performRequest; the passes of the two calls     *)
(* interleave.                                                             *)
(***************************************************************************)
\* the statuses the nodes answer the two threads with
ThreadStatuses == {0, 200}

\* thread t enters Client::performRequest
ThreadStart(t) ==
    /\ threads[t].pc = "idle"
    /\ threads' = [threads EXCEPT ![t].pc = "request"]
    /\ UNCHANGED <<clientVars, nodeStatus, callVars, bulkVars, op,
                   selectorBefore, dataVars, facadeCall, answeredBy,
                   scrollVars>>

\* one pass of the while loop of performRequest in the call of thread t, on
\* the currentHostIndex and failCounter that the passes before it, of
\* either thread, have left
ThreadAttempt(t) ==
    /\ threads[t].pc = "request"
    /\ \E rnd \in HostIndexes :
          LET status_code == nodeStatus[currentHostIndex]
              r == performRequest(currentHostIndex, failCounter, HostCount,
                                  status_code, rnd)
          IN  /\ threads' =
                    [threads EXCEPT
                        ![t].requests =
                            Append(@, [host |-> currentHostIndex,
                                       status_code |-> status_code]),
                        ![t].outcome = r.end,
                        ![t].pc = IF r.end = "none" THEN "request"
                                  ELSE "done"]
              /\ currentHostIndex' = r.currentHostIndex
              /\ failCounter' = r.failCounter
    /\ UNCHANGED <<hostUrlList, nodeStatus, callVars, bulkVars, op,
                   selectorBefore, dataVars, facadeCall, answeredBy,
                   scrollVars>>

ThreadInit == InitWith(MaxHosts, ThreadStatuses, {MaxBatch})

ThreadNext ==
    \/ \E h \in HostIndexes, s \in ThreadStatuses : NodeChange(h, s)
    \/ \E t \in Threads : ThreadStart(t)
    \/ \E t \in Threads : ThreadAttempt(t)

ThreadSpec == ThreadInit /\ [][ThreadNext]_vars

(***************************************************************************)
(* One Client shared by its user, a Bulk and a Scroll, called one after    *)
(* the other                                                               *)
(***************************************************************************)
\* the statuses the nodes of the shared Client answer with
SharedStatuses == {0, 200}

\* the text a node that answers with status gives to the request of who
SharedText(who, status) ==
    IF status = 0 THEN NoText
    ELSE IF who = "bulk"
         THEN JsonText(JObject("errors" :> JBool(status # 200)))
    ELSE IF who \in {"scroll.create", "scroll.next"}
         THEN IF status = 200 /\ pages = <<>>
              THEN JsonText(FirstPage) ELSE GarbageText
    ELSE IF who = "scroll.init" THEN JsonText(JObject(NoMembers))
    ELSE GarbageText

\* one pass of the loop of performRequest, whoever made the call
SharedAttempt ==
    Attempt(SharedText(caller, nodeStatus[currentHostIndex]))

SharedInit == InitWith(MaxHosts, SharedStatuses, {MaxBatch})

SharedNext ==
    \/ \E h \in HostIndexes, s \in SharedStatuses :
          pc = "idle" /\ NodeChange(h, s)
    \/ ClientPerformRequest
    \/ ClientReturn
    \/ IndexDocument(<<"typeX">>, <<"id1">>, <<"{data1}">>, TRUE)
    \/ Perform
    \/ RunReturn
    \/ ScrollInitOp(<<"idx">>, <<"doc">>, <<"{query}">>)
    \/ ScrollInitReturn
    \/ ScrollNextOp
    \/ ScrollRunReturn
    \/ SharedAttempt

SharedSpec == SharedInit /\ [][SharedNext]_vars

(***************************************************************************)
(* Properties of the request dispatcher                                    *)
(***************************************************************************)
\* a performRequest call has ended, with a response or with an exception
CallEnded == pc # "request" /\ outcome # "none"

\* the statuses on which performRequest goes on to the next node
FailStatuses == {0, 503}

\* every node attempt of the call failed
AllAttemptsFailed ==
    \A i \in 1 .. Len(requests) : requests[i].status_code \in FailStatuses

\* C1: when every node attempt of a performRequest call fails (status 0 or
\* 503), the call ends with ConnectionException after exactly N attempts,
\* N the number of configured nodes, and failCounter is 0 when the
\* exception leaves the call; such a call never goes beyond N attempts.
C1_AllNodesFail ==
    /\ (pc = "request" /\ AllAttemptsFailed) => Len(requests) < HostCount
    /\ (CallEnded /\ AllAttemptsFailed) =>
          /\ outcome = "ConnectionException"
          /\ Len(requests) = HostCount
          /\ failCounter = 0

C1_Witness ==
    /\ pc = "return"
    /\ outcome = "ConnectionException"
    /\ HostCount = MaxHosts
    /\ AllAttemptsFailed

\* C2: when the nodes did not change their behaviour during the call and at
\* least one of them answers with a status other than 0 and 503, the call
\* ends with a response of such a node, after at most N attempts, and not
\* with ConnectionException; a call that has not ended has made fewer than
\* N attempts.
C2_SomeNodeAnswers ==
    /\ pc = "request" => Len(requests) < HostCount
    /\ (/\ CallEnded
        /\ ~changed
        /\ \E h \in HostIndexes : nodeStatus[h] \notin FailStatuses) =>
        /\ outcome = "response"
        /\ Len(requests) <= HostCount
        /\ response.status_code \notin FailStatuses
        /\ response.status_code = nodeStatus[requests[Len(requests)].host]
        /\ currentHostIndex = requests[Len(requests)].host

C2_Witness ==
    /\ pc = "return"
    /\ outcome = "response"
    /\ ~changed
    /\ HostCount = MaxHosts
    /\ Len(requests) = HostCount
    /\ requests[1].host > requests[Len(requests)].host

\* C3: a response whose status is neither 0 nor 503 ends the call at that
\* attempt: it is the last attempt of the call, and the call returns that
\* response, status and text, unchanged.
C3_AnswerEndsCall ==
    \A i \in 1 .. Len(requests) :
        requests[i].status_code \notin FailStatuses =>
            /\ i = Len(requests)
            /\ pc # "request"
            /\ outcome = "response"
            /\ response = [status_code |-> requests[i].status_code,
                           text |-> requests[i].text]

C3_Witness ==
    /\ pc = "return"
    /\ outcome = "response"
    /\ response.status_code = 404
    /\ Len(requests) = 1
    /\ HostCount > 1

(***************************************************************************)
(* Properties of Bulk::perform                                             *)
(***************************************************************************)
\* a perform call on a batch that is not empty has returned
PerformDone == pc = "idle" /\ op = "perform" /\ Len(data) > 0

\* its request was answered with a 2xx status
Answer2xx ==
    /\ outcome = "response"
    /\ response.status_code >= 200
    /\ response.status_code <= 299

\* ... and the text of the answer parses to an object
AnswerObject ==
    /\ Answer2xx
    /\ response.text.parse = "ok"
    /\ response.text.root.type = "object"

\* the top-level `errors` of the answer is the boolean false
ErrorsIsFalse ==
    /\ "errors" \in DOMAIN response.text.root.members
    /\ response.text.root.members["errors"] = JBool(FALSE)

\* the answer has an `items` member that is an array
ItemsIsArray ==
    /\ "items" \in DOMAIN response.text.root.members
    /\ response.text.root.members["items"].type = "array"

\* the recognized action key of an item that is looked at: the first one,
\* in the order create, index, update, delete, that the item has
ActionKeyOf(item) ==
    IF "create" \in DOMAIN item.members THEN "create"
    ELSE IF "index" \in DOMAIN item.members THEN "index"
    ELSE IF "update" \in DOMAIN item.members THEN "update"
    ELSE IF "delete" \in DOMAIN item.members THEN "delete"
    ELSE "none"

\* an entry under an action key that stands for a failed action
FailedEntry(e) ==
    \/ e.type # "object"
    \/ "status" \notin DOMAIN e.members
    \/ e.members["status"].type # "int"
    \/ e.members["status"].val \notin 200 .. 299

\* an item of the answer that counts as an error
FailedItem(item) ==
    \/ item.type # "object"
    \/ /\ ActionKeyOf(item) # "none"
       /\ FailedEntry(item.members[ActionKeyOf(item)])

\* C4: perform on a batch that is not empty, whose request ends in
\* ConnectionException or gets a status outside 200..299, returns the size
\* of the batch, does not parse the response and raises no exception.
C4_FailedRequestFailsBatch ==
    (/\ PerformDone
     /\ \/ outcome = "ConnectionException"
        \/ outcome = "response" /\ ~Answer2xx) =>
        /\ performRet = Len(data)
        /\ ~parsed
        /\ ~raised

C4_Witness ==
    /\ PerformDone
    /\ outcome = "response"
    /\ response.status_code = 300
    /\ response.text.parse = "ok"
    /\ Len(data) = 2
    /\ performRet = 2

\* C5: for a 2xx answer that is an object whose `errors` is not the boolean
\* false and whose `items` is an array, perform returns the number of items
\* that are not an object or whose entry under the recognized action key is
\* not an object, has no status, has a status that is not an integer, or
\* has a status outside 200..299.
C5_CountsFailedItems ==
    (PerformDone /\ AnswerObject /\ ~ErrorsIsFalse /\ ItemsIsArray) =>
        LET items == response.text.root.members["items"].elems
        IN  performRet =
                Cardinality({i \in 1 .. Len(items) : FailedItem(items[i])})

\* a batch of 2, `errors` true, 1 of the 2 items with a status outside 2xx
C5_Witness ==
    /\ PerformDone
    /\ AnswerObject
    /\ Len(data) = 2
    /\ "errors" \in DOMAIN response.text.root.members
    /\ response.text.root.members["errors"] = JBool(TRUE)
    /\ ItemsIsArray
    /\ response.text.root.members["items"].elems =
          <<JObject("index" :> EntryOk), JObject("index" :> EntryFailed)>>
    /\ performRet = 1

\* C6: for a 2xx answer that is an object whose `errors` is the boolean
\* false, perform returns 0 whatever `items` is.
C6_ErrorsFalseIsSuccess ==
    (PerformDone /\ AnswerObject /\ ErrorsIsFalse) => performRet = 0

C6_Witness ==
    /\ PerformDone
    /\ AnswerObject
    /\ ErrorsIsFalse
    /\ ItemsIsArray
    /\ \E i \in 1 .. Len(response.text.root.members["items"].elems) :
          FailedItem(response.text.root.members["items"].elems[i])
    /\ performRet = 0

\* C7: perform on an empty batch returns 0 and makes no request: no node
\* is attempted, no performRequest call is made and currentHostIndex and
\* failCounter are what they were before.
C7_EmptyBatchNoRequest ==
    (op = "perform" /\ Len(data) = 0) =>
        /\ pc = "idle"
        /\ performRet = 0
        /\ requests = <<>>
        /\ outcome = "none"
        /\ <<currentHostIndex, failCounter>> = selectorBefore

C7_Witness ==
    /\ op = "perform"
    /\ Len(data) = 0
    /\ pc = "idle"
    /\ performRet = 0

\* C8: whenever no perform call is running, getErrorCount() is the value
\* that the most recent perform call returned.
C8_ErrorCountIsLastReturn ==
    pc = "idle" => errCount = performRet

\* C9: the value perform returns for a batch that is not empty is given by
\* the size of the batch and the answer alone; the errors counted by
\* earlier perform calls are not in it.
C9_CountOfThisBatchOnly ==
    PerformDone =>
        performRet =
            IF outcome = "ConnectionException" \/ ~Answer2xx THEN Len(data)
            ELSE processResult(response.text, Len(data), 0)

\* a failed batch of 2, then a failed batch of 1 that returns 1
C9_Witness ==
    /\ PerformDone
    /\ errBefore = 2
    /\ Len(data) = 1
    /\ outcome = "response" /\ ~Answer2xx
    /\ performRet = 1

\* C10: for a 2xx answer whose text does not parse, or parses to something
\* that is not an object, perform returns the size of the batch.
C10_UnusableAnswerFailsBatch ==
    (PerformDone /\ Answer2xx /\ ~AnswerObject) => performRet = Len(data)

C10_Witness ==
    /\ PerformDone
    /\ Answer2xx
    /\ response.text = JsonText(JArray(<<>>))
    /\ Len(data) = 2
    /\ performRet = 2

\* C11: for a 2xx answer that is an object whose `errors` is not the
\* boolean false and whose `items` is missing or is not an array, perform
\* returns exactly the size of the batch.
C11_NoItemsFailsBatch ==
    (PerformDone /\ AnswerObject /\ ~ErrorsIsFalse /\ ~ItemsIsArray) =>
        performRet = Len(data)

(***************************************************************************)
(* Properties of SameIndexBulkData                                         *)
(***************************************************************************)
\* the most recent operation is one of the add operations
AddOps == {"indexDocument", "createDocument", "updateDocument"}

\* the document has a line break
HasLineBreak(doc) == \E i \in 1 .. Len(doc) : doc[i] = "\n"

\* the lines of one added item: the header, and the document when there is
\* one
ItemLines(a) ==
    createControl(<<a.action>>, a.docType, a.id) \o <<"\n">>
    \o (IF a.doc = <<>> THEN <<>> ELSE a.doc \o <<"\n">>)

\* the lines of the added items, in the order of the adds
RECURSIVE ExpectedBody(_)
ExpectedBody(log) ==
    IF log = <<>> THEN <<>>
    ELSE ItemLines(Head(log)) \o ExpectedBody(Tail(log))

\* C12: after any sequence of adds and clear, body() is the concatenation,
\* in the order of the adds since the last clear, of
\* createControl(action, type, id) + "\n" + document + "\n" for each pending
\* item (the header line alone when the item has no document), and size()
\* is the number of these items.
C12_BodyIsConcatenation ==
    /\ body(data) = ExpectedBody(added)
    /\ size(data) = Len(added)

\* an item without a document, then an update with an id
C12_Witness ==
    /\ Len(added) = 2
    /\ added[1].action = "create" /\ added[1].doc = <<>> /\ added[1].id = <<>>
    /\ added[2].action = "update" /\ added[2].id = <<"id1">>
    /\ body(data) =
          <<"{\"", "create", "\": {\"_type\": \"", "typeX", "\"", "}}", "\n",
            "{\"", "update", "\": {\"_type\": \"", "typeX", "\"",
            ", \"_id\": \"", "id1", "\"", "}}", "\n", "{data1}", "\n">>
    /\ size(data) = 2

\* C13, as stated: every add operation, in each overload, fails with the
\* invalid-document error when the document has a line break and leaves
\* the batch unchanged, so that no pending item holds a document with a
\* line break.
C13_AddRejectsLineBreak ==
    /\ (op \in AddOps /\ HasLineBreak(lastAdd.doc)) =>
          /\ lastAdd.threw
          /\ data = dataBefore
    /\ \A i \in 1 .. Len(data) : ~HasLineBreak(data[i].source)

\* C13, amended: an add operation that validates (the overloads without
\* `validate`, or validate = true) fails with the invalid-document error
\* when the document has a line break and leaves the batch unchanged; an
\* add with validate = false never fails and appends the document as it
\* is; so no pending item that was added with validation holds a document
\* with a line break.
C13_ValidatingAddRejectsLineBreak ==
    /\ (op \in AddOps /\ lastAdd.validate) =>
          /\ lastAdd.threw = HasLineBreak(lastAdd.doc)
          /\ lastAdd.threw => data = dataBefore
    /\ (op \in AddOps /\ ~lastAdd.validate) =>
          /\ ~lastAdd.threw
          /\ Len(data) = Len(dataBefore) + 1
          /\ data[Len(data)].source = lastAdd.doc
    /\ \A i \in (DOMAIN data) \cap (DOMAIN added) :
          added[i].validate => ~HasLineBreak(data[i].source)

\* a createDocument of a document with a line break on a batch of 1 item
C13_Witness ==
    /\ op = "createDocument"
    /\ lastAdd.validate
    /\ HasLineBreak(lastAdd.doc)
    /\ lastAdd.threw
    /\ Len(dataBefore) = 1
    /\ data = dataBefore

\* C14: an add that succeeds returns true exactly when the number of
\* pending items after it is at least the desired size given at
\* construction; the desired size is not a cap: the add appends its item
\* also when the batch has reached it.
C14_ReturnsTargetReached ==
    (op \in AddOps /\ ~lastAdd.threw) =>
        /\ addRet = (Len(data) >= implSize)
        /\ Len(data) = Len(dataBefore) + 1

\* an add to a batch that had reached its desired size of 1
C14_Witness ==
    /\ op = "indexDocument"
    /\ ~lastAdd.threw
    /\ implSize = 1
    /\ Len(dataBefore) = 1
    /\ Len(data) = 2
    /\ addRet = TRUE

(***************************************************************************)
(* Properties of Scroll                                                    *)
(***************************************************************************)
\* the cursor token of the most recent accepted page, empty if none
LastToken(ps) == IF ps = <<>> THEN <<>> ELSE ps[Len(ps)].token

\* the request of a scroll-next that carries the cursor token sid
ScrollNextRequest(sid) ==
    [method |-> "POST", urlPath |-> <<"_search/scroll?scroll=", "1m">>,
     body |-> sid]

\* the request that releases the cursor token sid
ScrollDeleteRequest(sid) ==
    [method |-> "DELETE", urlPath |-> <<"_search/scroll/">>, body |-> sid]

\* the most recent operation made no request and left the selector alone
NoRequestMade ==
    /\ pc = "idle"
    /\ scrollCalls = <<>>
    /\ requests = <<>>
    /\ outcome = "none"
    /\ <<currentHostIndex, failCounter>> = selectorBefore

\* C15: the cursor token held is the one of the most recent accepted page
\* (each accepted response replaces it); a next() on a Started scroll makes
\* one scroll-next request that carries the token of the most recent page
\* accepted before it; so each page that follows a page with a token was
\* fetched with that token, and the pages A0 (2 hits), A1 (3 hits), A2
\* (0 hits), accepted in this order, were fetched by sending A0 and then
\* A1 and gave the hit counts 2, 3, 0.
C15_NextSendsLatestToken ==
    /\ scrollParameters.scrollId = LastToken(pages)
    /\ (op = "next" /\ paramsBefore.scrollId # <<>>) =>
          /\ scrollCalls = <<ScrollNextRequest(paramsBefore.scrollId)>>
          /\ paramsBefore.scrollId =
                IF pc = "idle" /\ nextRet
                THEN pages[Len(pages) - 1].token
                ELSE LastToken(pages)
    /\ \A i \in 2 .. Len(pages) :
          pages[i - 1].token # <<>> =>
              pages[i].sent = ScrollNextRequest(pages[i - 1].token)
    /\ (/\ Len(pages) = 3
        /\ pages[1].token = <<"A0">>
        /\ pages[2].token = <<"A1">>
        /\ pages[3].token = <<"A2">>) =>
          /\ pages[2].sent.body = <<"A0">>
          /\ pages[3].sent.body = <<"A1">>
          /\ <<pages[1].hits, pages[2].hits, pages[3].hits>> = <<2, 3, 0>>

\* the run init, next, next, next of the test
C15_Witness ==
    /\ op = "next"
    /\ pc = "idle"
    /\ nextRet
    /\ Len(pages) = 3
    /\ pages[1].token = <<"A0">> /\ pages[1].hits = 2
    /\ pages[1].sent.body = <<"{}">>
    /\ pages[2].token = <<"A1">> /\ pages[2].hits = 3
    /\ pages[2].sent.body = <<"A0">>
    /\ pages[3].token = <<"A2">> /\ pages[3].hits = 0
    /\ pages[3].sent.body = <<"A1">>
    /\ parsedResult = Hits(0)
    /\ scrollParameters.scrollId = <<"A2">>

\* C16: clear() on a Started cursor makes exactly one performRequest call,
\* a DELETE on the scroll-release path that carries the cursor token held
\* when clear was called, which is the token of the most recent accepted
\* page.
C16_ClearSendsOneDelete ==
    (op = "clear" /\ paramsBefore.scrollId # <<>>) =>
        /\ scrollCalls = <<ScrollDeleteRequest(paramsBefore.scrollId)>>
        /\ pc # "idle" => paramsBefore.scrollId = LastToken(pages)
        /\ pc = "idle" => outcome # "none"

\* the clear after the pages A0 and A1
C16_Witness ==
    /\ op = "clear"
    /\ pc = "idle"
    /\ paramsBefore.scrollId = <<"A1">>
    /\ scrollCalls = <<ScrollDeleteRequest(<<"A1">>)>>
    /\ outcome = "response"

\* C17: next() on a Scroll on which init() was never called returns false
\* and makes no request on the Client.
C17_NextBeforeInitFails ==
    (op = "next" /\ lifecycle = "new") =>
        /\ NoRequestMade
        /\ nextRet = FALSE
        /\ ~scrollRaised

C17_Witness ==
    /\ op = "next"
    /\ lifecycle = "new"
    /\ pc = "idle"
    /\ nextRet = FALSE
    /\ requests = <<>>

\* C18: clear() on a cursor that holds no cursor token, never initialized
\* or initialized without an accepted page, makes no request and raises
\* no error.
C18_ClearWithoutTokenNoRequest ==
    (op = "clear" /\ paramsBefore.scrollId = <<>>) =>
        /\ NoRequestMade
        /\ ~scrollRaised

\* the clear of a cursor that is initialized and has no page
C18_Witness ==
    /\ op = "clear"
    /\ paramsBefore.scrollId = <<>>
    /\ paramsBefore.searchBody = <<"{query}">>
    /\ pc = "idle"
    /\ requests = <<>>

\* C19: after clear(), every next() returns false, without a request,
\* until init() is called again, also when the cursor was Started before
\* the clear.
C19_NextAfterClearFails ==
    (op = "next" /\ lifecycle \in {"cleared", "released"}) =>
        /\ NoRequestMade
        /\ nextRet = FALSE

\* a next after the clear of a Started cursor
C19_Witness ==
    /\ op = "next"
    /\ lifecycle = "released"
    /\ pc = "idle"
    /\ nextRet = FALSE
    /\ requests = <<>>

\* C20, as stated: clear() takes a Started cursor back to Initialized: the
\* cursor token is empty and the instance counts as initialized, so that the
\* following next() delegates to createScroll.
C20_ClearBackToInitialized ==
    /\ (op = "clear" /\ pc = "idle" /\ paramsBefore.scrollId # <<>>) =>
          /\ scrollParameters.scrollId = <<>>
          /\ isInitialized(scrollParameters)
    /\ (op = "next" /\ lifecycle = "released") =>
          /\ Len(scrollCalls) = 1
          /\ scrollCalls[1].method = "POST"
          /\ scrollCalls[1].body = paramsBefore.searchBody

\* C20, amended: clear() takes a Started cursor back to Uninitialized: the
\* cursor token, the body of the search, the index and the type are empty,
\* the instance does not count as initialized, and the following next()
\* does not delegate to createScroll: it makes no request.
C20_ClearBackToUninitialized ==
    /\ (op = "clear" /\ pc = "idle" /\ paramsBefore.scrollId # <<>>) =>
          /\ scrollParameters =
                [scrollId |-> <<>>, searchBody |-> <<>>, docType |-> <<>>,
                 indexName |-> <<>>]
          /\ ~isInitialized(scrollParameters)
          /\ ~isScrollStarted(scrollParameters)
    /\ (op = "next" /\ lifecycle = "released") => scrollCalls = <<>>

\* a Started cursor has been cleared
C20_Witness ==
    /\ op = "clear"
    /\ pc = "idle"
    /\ paramsBefore.scrollId = <<"A0">>
    /\ lifecycle = "released"
    /\ scrollParameters.searchBody = <<>>

\* C21: init() on a cursor that is Initialized or Started first performs
\* clear(): for a Started cursor it makes one DELETE that carries the old
\* cursor token, and the old parameters stay while that request runs;
\* without a cursor token it makes no request; when init has returned, the
\* index, the type and the body are the ones given to it and the cursor
\* token is empty.
C21_InitClearsFirst ==
    /\ (op = "init" /\ paramsBefore.scrollId # <<>>) =>
          /\ scrollCalls = <<ScrollDeleteRequest(paramsBefore.scrollId)>>
          /\ pc # "idle" => scrollParameters = paramsBefore
    /\ (op = "init" /\ paramsBefore.scrollId = <<>>) => NoRequestMade
    /\ (op = "init" /\ pc = "idle") =>
          /\ scrollParameters =
                [scrollId |-> <<>>, searchBody |-> initArgs[3],
                 docType |-> initArgs[2], indexName |-> initArgs[1]]
          /\ pages = <<>>
          /\ ~scrollRaised

\* an init with another body on a cursor that holds the token A0
C21_Witness ==
    /\ op = "init"
    /\ pc = "idle"
    /\ paramsBefore.scrollId = <<"A0">>
    /\ paramsBefore.searchBody = <<"{}">>
    /\ scrollCalls = <<ScrollDeleteRequest(<<"A0">>)>>
    /\ scrollParameters.searchBody = <<"{query}">>
    /\ scrollParameters.scrollId = <<>>

\* C22: when clear() has returned, the cursor token, the body of the
\* search, the index and the type are empty, whether no token was held,
\* the DELETE got a 2xx answer, it got another answer, or it ended in
\* ConnectionException; clear() raises nothing in any of these cases.
C22_ClearAlwaysEmpties ==
    (op = "clear" /\ pc = "idle") =>
        /\ scrollParameters =
              [scrollId |-> <<>>, searchBody |-> <<>>, docType |-> <<>>,
               indexName |-> <<>>]
        /\ ~scrollRaised
        /\ \/ paramsBefore.scrollId = <<>> /\ outcome = "none"
           \/ paramsBefore.scrollId # <<>> /\ outcome = "ConnectionException"
           \/ paramsBefore.scrollId # <<>> /\ outcome = "response"

\* the DELETE of the token A1 ended in ConnectionException
C22_Witness ==
    /\ op = "clear"
    /\ pc = "idle"
    /\ paramsBefore.scrollId = <<"A1">>
    /\ outcome = "ConnectionException"
    /\ scrollParameters.searchBody = <<>>
    /\ scrollParameters.scrollId = <<>>

\* C23: when the performRequest call inside next(), made by createScroll or
\* as a scroll-next, ends in ConnectionException, next() returns false, no
\* exception reaches its caller, and the parameters of the cursor and the
\* caller's parsedResult are what they were.
C23_ExhaustionIsFailedPage ==
    (op = "next" /\ pc = "idle" /\ outcome = "ConnectionException") =>
        /\ nextRet = FALSE
        /\ ~scrollRaised
        /\ scrollParameters = paramsBefore
        /\ parsedResult = NoResult

\* a scroll-next with the token A0 found no node
C23_Witness ==
    /\ op = "next"
    /\ pc = "idle"
    /\ outcome = "ConnectionException"
    /\ paramsBefore.scrollId = <<"A0">>
    /\ Len(requests) = HostCount
    /\ nextRet = FALSE

(***************************************************************************)
(* Properties of ScrollByScan                                              *)
(***************************************************************************)
\* the create request of a ScrollByScan with the parameters ps
ScanCreateRequest(ps) ==
    [method |-> "POST",
     urlPath |-> ps.indexName \o <<"/">> \o ps.docType
                 \o <<"/_search?scroll=", "1m", "&size=", "100",
                      "&search_type=scan">>,
     body |-> ps.searchBody]

\* the most recent operation is a next on an initialized ScrollByScan that
\* holds no cursor token, as the first next after init is
ScanFirstNext ==
    /\ op = "next"
    /\ paramsBefore.searchBody # <<>>
    /\ paramsBefore.scrollId = <<>>

C25_DestructorClears ==
    op = "destroy" =>
        /\ paramsBefore.scrollId # <<>> =>
              scrollCalls = <<ScrollDeleteRequest(paramsBefore.scrollId)>>
        /\ paramsBefore.scrollId = <<>> => NoRequestMade
        /\ pc = "idle" =>
              /\ ~scrollRaised
              /\ lifecycle = "destroyed"
              /\ scrollParameters = EmptyParams

\* a Scroll on the cursor A0 is destroyed while no node answers
C25_Witness ==
    /\ op = "destroy"
    /\ pc = "idle"
    /\ paramsBefore.scrollId = <<"A0">>
    /\ outcome = "ConnectionException"
    /\ Len(scrollCalls) = 1

(***************************************************************************)
(* Properties of search, get, index and remove                             *)
(***************************************************************************)
FacadeOps == {"search", "get", "index", "remove"}

\* C26: get and remove raise the argument error exactly when index, type
\* or id is empty, index exactly when index or type is empty, search never;
\* when the error is raised no request was attempted and currentHostIndex
\* and failCounter are as before the call, and otherwise performRequest is
\* called
C26_FacadeArgumentErrors ==
    /\ op \in {"get", "remove"} =>
          facadeCall.threw = (\/ facadeCall.indexName = <<>>
                              \/ facadeCall.docType = <<>>
                              \/ facadeCall.id = <<>>)
    /\ op = "index" =>
          facadeCall.threw = (\/ facadeCall.indexName = <<>>
                              \/ facadeCall.docType = <<>>)
    /\ op = "search" => ~facadeCall.threw
    /\ (op \in FacadeOps /\ facadeCall.threw) =>
          /\ pc = "idle"
          /\ requests = <<>>
          /\ outcome = "none"
          /\ <<currentHostIndex, failCounter>> = selectorBefore
    /\ (op \in FacadeOps /\ ~facadeCall.threw) =>
          /\ pc = "idle" => (outcome # "none" /\ requests # <<>>)
          /\ facadeCall.method # "none"

\* a remove with an index and an id but no type is refused
C26_Witness ==
    /\ op = "remove"
    /\ facadeCall.threw
    /\ facadeCall.indexName # <<>>
    /\ facadeCall.docType = <<>>
    /\ facadeCall.id # <<>>
    /\ pc = "idle"

(***************************************************************************)
(* Properties of the items of a batch                                      *)
(***************************************************************************)
\* C27: an add operation (index, create, update) whose document is empty
\* fails with the argument error and leaves the batch as it was
C27_AddRejectsEmptyDocument ==
    (op \in AddOps /\ lastAdd.doc = <<>>) =>
        /\ lastAdd.threw
        /\ data = dataBefore

(***************************************************************************)
(* Properties of the order of the attempts                                 *)
(***************************************************************************)
\* C28: the attempts of one performRequest call go through the nodes in
\* cyclic list order from the currentHostIndex the call began with: no node
\* is attempted twice and there are at most N attempts
C28_CyclicOrderOncePerNode ==
    /\ Len(requests) <= HostCount
    /\ \A i \in 1 .. Len(requests) :
          requests[i].host = (selectorBefore[1] + i - 1) % HostCount
    /\ \A i, j \in 1 .. Len(requests) :
          i # j => requests[i].host # requests[j].host

\* a call on three nodes that began at node 1 and got its response from
\* node 0, after nodes 1 and 2 failed
C28_Witness ==
    /\ HostCount = 3
    /\ selectorBefore[1] = 1
    /\ Len(requests) = 3
    /\ requests[3].host = 0
    /\ outcome = "response"

\* C29: after performRequest returned a response failCounter is 0 and
\* currentHostIndex is the node that gave it, and the following
\* performRequest call, made by search, get, index or remove, makes its
\* first attempt on that node
C29_StaysOnResponder ==
    /\ (outcome = "response" /\ pc # "request") =>
          /\ failCounter = 0
          /\ currentHostIndex = requests[Len(requests)].host
    /\ (op \in FacadeOps /\ answeredBy # -1 /\ requests # <<>>) =>
          requests[1].host = answeredBy

\* node 1 answered a call; in the following call it is attempted first,
\* fails, and node 2 answers
C29_Witness ==
    /\ HostCount = 3
    /\ op = "get"
    /\ answeredBy = 1
    /\ Len(requests) = 2
    /\ requests[1].host = 1
    /\ requests[2].host = 2
    /\ outcome = "response"
    /\ pc = "return"
    /\ currentHostIndex = 2
    /\ failCounter = 0

(***************************************************************************)
(* Properties of the acceptance of a response                              *)
(***************************************************************************)
\* the conditions on a response that do not concern the failed shards
WellFormedPage(resp) ==
    /\ (resp.status_code \div 100 = 2 \/ resp.status_code = 404)
    /\ resp.text.parse = "ok"
    /\ LET root == resp.text.root
       IN  /\ IsObject(root)
           /\ "error" \in DOMAIN root.members =>
                 root.members["error"] = JBool(FALSE)
           /\ "timed_out" \in DOMAIN root.members =>
                 root.members["timed_out"] = JBool(FALSE)
           /\ "_shards" \in DOMAIN root.members
           /\ IsObject(root.members["_shards"])
           /\ "failed" \in DOMAIN root.members["_shards"].members
           /\ IsInt(root.members["_shards"].members["failed"])
           /\ "hits" \in DOMAIN root.members
           /\ IsObject(root.members["hits"])
           /\ "hits" \in DOMAIN root.members["hits"].members
           /\ IsArray(root.members["hits"].members["hits"])
           /\ "_scroll_id" \in DOMAIN root.members
           /\ IsString(root.members["_scroll_id"])

\* the number of failed shards of a well-formed page
FailedShards(resp) == resp.text.root.members["_shards"].members["failed"].val

\* C30 as stated: next returns success for a response exactly when the
\* status is 2xx or 404, the body parses, `error` and `timed_out` are
\* absent or false, `_shards` is an object with an integer `failed` equal
\* to 0, `hits` is an object with a `hits` array and `_scroll_id` is a
\* string
C30_AcceptedIffFailedZero ==
    (op = "next" /\ pc = "idle" /\ outcome = "response") =>
        nextRet = (WellFormedPage(response) /\ FailedShards(response) = 0)

\* C30 amended: as stated, but with an integer `failed` that is not
\* greater than 0; a response accepted is never one without `_shards` or
\* without `failed`
C30_AcceptedIffNoFailedShard ==
    (op = "next" /\ pc = "idle" /\ outcome = "response") =>
        nextRet = (WellFormedPage(response) /\ FailedShards(response) <= 0)

\* a page with `error` false that came with the status 404 is accepted
C30_Witness ==
    /\ op = "next"
    /\ pc = "idle"
    /\ outcome = "response"
    /\ response.status_code = 404
    /\ response.text = JsonText(With(FirstPage, "error", JBool(FALSE)))
    /\ nextRet
    /\ parsedResult = Hits(2)

(***************************************************************************)
(* Properties of a page fetch that fails                                   *)
(***************************************************************************)
\* the create request of a Scroll with the parameters ps
ScrollCreateRequest(ps) ==
    [method |-> "POST",
     urlPath |-> ps.indexName \o <<"/">> \o ps.docType
                 \o <<"/_search?scroll=", "1m", "&size=", "100">>,
     body |-> ps.searchBody]

\* C31: a next() whose request did not give a page (rejected response,
\* status outside 2xx and 404, ConnectionException) leaves the cursor
\* token, the search body, the index and the type as they were; a next()
\* on an initialized cursor without token sends the create request, also
\* after such a failure, and a next() on a cursor with a token sends that
\* token
C31_FailedFetchKeepsParameters ==
    /\ (op = "next" /\ pc = "idle" /\ scrollCalls # <<>> /\ ~nextRet) =>
          scrollParameters = paramsBefore
    /\ (op = "next" /\ paramsBefore.searchBody # <<>>
        /\ paramsBefore.scrollId = <<>>) =>
          scrollCalls = <<ScrollCreateRequest(paramsBefore)>>
    /\ (op = "next" /\ paramsBefore.scrollId # <<>>) =>
          scrollCalls = <<ScrollNextRequest(paramsBefore.scrollId)>>

\* the cursor A0 got a response with an error that carries the token A3
C31_Witness ==
    /\ op = "next"
    /\ pc = "idle"
    /\ paramsBefore.scrollId = <<"A0">>
    /\ outcome = "response"
    /\ response.status_code = 200
    /\ response.text =
          JsonText(With(With(FirstPage, "_scroll_id", JStr(<<"A3">>)),
                        "error", JBool(TRUE)))
    /\ ~nextRet
    /\ scrollParameters.scrollId = <<"A0">>

(***************************************************************************)
(* Properties of the count of Bulk::perform                                *)
(***************************************************************************)
\* the items of the answer, when `items` is an array
AnswerItems == response.text.root.members["items"].elems

\* C32: when the `items` array of the answer holds fewer items than the
\* batch, perform raises nothing and returns the number of failing items
\* among those returned: the items without a response are not counted
C32_MissingItemsNotCounted ==
    (/\ PerformDone /\ AnswerObject /\ ~ErrorsIsFalse /\ ItemsIsArray
     /\ Len(AnswerItems) < Len(data)) =>
        /\ ~raised
        /\ performRet =
              Cardinality({i \in 1 .. Len(AnswerItems) :
                              FailedItem(AnswerItems[i])})
        /\ performRet <= Len(AnswerItems)
        /\ performRet < Len(data)

\* a batch of 2, one item returned, which failed
C32_Witness ==
    /\ PerformDone
    /\ AnswerObject
    /\ ~ErrorsIsFalse
    /\ ItemsIsArray
    /\ Len(data) = 2
    /\ AnswerItems = <<JObject("index" :> EntryFailed)>>
    /\ performRet = 1

\* C38: no step of Bulk::perform changes the batch: data, size() and body()
\* are after the step what they were before it
C38_PerformKeepsBatch ==
    [][op' = "perform" =>
          /\ data' = data
          /\ size(data') = size(data)
          /\ body(data') = body(data)]_vars

\* a perform on the batch of 2 that a perform before it had counted as
\* failed; the batch still holds the two items that were added
C38_Witness ==
    /\ PerformDone
    /\ errBefore = 2
    /\ Len(data) = 2
    /\ Len(added) = 2
    /\ body(data) = ExpectedBody(added)
    /\ outcome = "response"

\* C39: the value returned by perform is at most the number of items of
\* the batch
C39_ReturnAtMostBatchSize ==
    (op = "perform" /\ pc = "idle") => performRet <= Len(data)

\* an item of the answer that is an object without any action key
Keyless(item) == item.type = "object" /\ ActionKeyOf(item) = "none"

\* C40: an item of the answer that is an object with none of the keys
\* create, index, update, delete adds nothing to the count: perform
\* returns at most the number of the other items, and 0 when there is no
\* other item
C40_KeylessItemAddsNothing ==
    (PerformDone /\ AnswerObject /\ ~ErrorsIsFalse /\ ItemsIsArray) =>
        performRet <= Cardinality({i \in 1 .. Len(AnswerItems) :
                                      ~Keyless(AnswerItems[i])})

\* the answer {"took": {"status": 300}} to a batch of 1 counts no error
C40_Witness ==
    /\ PerformDone
    /\ AnswerObject
    /\ ~ErrorsIsFalse
    /\ ItemsIsArray
    /\ AnswerItems = <<JObject("took" :> EntryFailed)>>
    /\ performRet = 0

(***************************************************************************)
(* Properties of the selector of a Client shared by several callers        *)
(***************************************************************************)
\* C34: in every state of a Client that its user, a Bulk and a Scroll call
\* one after the other, currentHostIndex is in [0, N) and failCounter is
\* below N, and failCounter is 0 whenever no performRequest call is in
\* progress, after a response as after a ConnectionException
C34_SelectorInRange ==
    /\ currentHostIndex \in 0 .. (HostCount - 1)
    /\ failCounter \in 0 .. (HostCount - 1)
    /\ pc # "request" => failCounter = 0

\* all three nodes failed the bulk request of a perform that followed a
\* next of the Scroll on the same Client; the selector is back in range
C34_Witness ==
    /\ HostCount = 3
    /\ pc = "idle"
    /\ op = "perform"
    /\ outcome = "ConnectionException"
    /\ Len(requests) = 3
    /\ requests[1].host = 2
    /\ scrollParameters.scrollId # <<>>
    /\ currentHostIndex \in 0 .. 2
    /\ failCounter = 0

\* C35: a call ends with ConnectionException only when it has attempted
\* each of the N nodes and each attempt failed, and while a call is in
\* progress failCounter is the number of failed attempts of that call
\* alone: the failures of the calls before it are not counted
C35_FailuresDoNotAccumulate ==
    /\ outcome = "ConnectionException" =>
          /\ Len(requests) = HostCount
          /\ AllAttemptsFailed
          /\ {requests[i].host : i \in 1 .. Len(requests)} = HostIndexes
    /\ pc = "request" =>
          /\ failCounter = Len(requests)
          /\ AllAttemptsFailed

\* a call on three nodes that ends with ConnectionException after three
\* attempts; the call before it had two failed attempts and a response
C35_Witness ==
    /\ HostCount = 3
    /\ op \in FacadeOps
    /\ facadeCall.failedBefore = 2
    /\ pc = "return"
    /\ outcome = "ConnectionException"
    /\ Len(requests) = 3

(***************************************************************************)
(* Properties of the cursor after a page                                   *)
(***************************************************************************)
\* C36: whenever next() has returned true the cursor token is not empty,
\* and a next() that follows an accepted page issues one scroll-next
\* request with the token held, never the create request
C36_SuccessMeansStarted ==
    /\ (op = "next" /\ pc = "idle" /\ nextRet) =>
          scrollParameters.scrollId # <<>>
    /\ (op = "next" /\ pc # "idle" /\ pages # <<>>) =>
          scrollCalls = <<ScrollNextRequest(paramsBefore.scrollId)>>

(***************************************************************************)
(* Properties of a ScrollByScan whose second round trip fails              *)
(***************************************************************************)
\* the first next() of a ScrollByScan has returned: its create response
\* was accepted, its scroll-next round trip was not
ScanSecondRoundFailed ==
    /\ ScanFirstNext
    /\ pc = "idle"
    /\ Len(scrollCalls) = 2
    /\ scrollCalls[1] = ScanCreateRequest(paramsBefore)
    /\ scrollAnswers[1].accepted
    /\ scrollCalls[2] = ScrollNextRequest(scrollAnswers[1].token)
    /\ ~scrollAnswers[2].accepted

FailedAttempts(t) ==
    Cardinality({i \in 1 .. Len(threads[t].requests) :
                    threads[t].requests[i].status_code \in FailStatuses})

\* the call of thread t has attempted some node twice
RepeatsNode(t) ==
    \E i, j \in 1 .. Len(threads[t].requests) :
        i < j /\ threads[t].requests[i].host = threads[t].requests[j].host

\* the call of thread t ended with ConnectionException after fewer than N
\* attempts
ThrowsEarly(t) ==
    /\ threads[t].outcome = "ConnectionException"
    /\ Len(threads[t].requests) < HostCount

\* C33: two performRequest calls on one Client whose node attempts
\* interleave share failCounter and currentHostIndex: a call can end with
\* ConnectionException after fewer than N attempts of its own, and a call
\* can attempt a node twice (both in the witness); each happens only
\* through the attempts of the other call: the failures that the first
\* lacks were counted from the other call, and a call alone repeats no node
C33_InterleavedCallsShareSelector ==
    \A t \in Threads :
        \A u \in Threads \ {t} :
            /\ ThrowsEarly(t) =>
                  FailedAttempts(u) >= HostCount - Len(threads[t].requests)
            /\ RepeatsNode(t) => threads[u].requests # <<>>
            /\ threads[u].requests = <<>> =>
                  /\ Len(threads[t].requests) <= HostCount
                  /\ failCounter =
                        IF threads[t].pc = "request"
                        THEN Len(threads[t].requests) ELSE 0

\* on three nodes the call of thread 1 has ended with ConnectionException
\* after two attempts, and the call of thread 2 has attempted a node twice
C33_Witness ==
    /\ HostCount = 3
    /\ ThrowsEarly(1)
    /\ Len(threads[1].requests) = 2
    /\ RepeatsNode(2)

====
